---- MODULE Spec2Model ----
(***************************************************************************)
(* Voice-assistant overlay of Eeknova-AI-Trainer.                          *)
(*                                                                         *)
(*   Part I  - the credential endpoint                                     *)
(*             frontend/src/app/api/realtime/token/route.ts (POST)         *)
(*   Part II - the client orchestrator                                     *)
(*             frontend/src/components/AssistantShell.tsx                  *)
(***************************************************************************)
EXTENDS Integers, Sequences, FiniteSets, TLC

(***************************************************************************)
(* Part I.  POST /api/realtime/token                                       *)
(***************************************************************************)
VARIABLES
    tkPc,          \* position inside POST: idle, loop, await, sleep, after, done
    attempt,       \* the for-loop counter `attempt`
    model,         \* `let model`
    openaiRes,     \* `let openaiRes`: NoRes (null) or the last upstream response
    lastDetails,   \* TRUE when lastDetails holds the body of a non-OK response
    upstreamLog,   \* the session-create requests issued so far: <<[model, outcome]>>
    sleptMs,       \* sum of the backoff sleeps
    tkResponse     \* the NextResponse returned, NoRes before that

tokenVars == <<tkPc, attempt, model, openaiRes, lastDetails, upstreamLog, sleptMs, tkResponse>>

cheapDefaultModel == "gpt-4o-mini-realtime-preview"
fallbackModel == "gpt-4o-realtime-preview"
maxAttempts == 3

NoRes == [kind |-> "none"]

\* What api.openai.com may do with one session-create request.
\*   throw                      : fetch rejects (DNS, proxy, network)
\*   resp, status 2xx           : json = body parses, secret = client_secret.value present
\*   resp, status 4xx/5xx       : unsupported = body matches
\*                                /invalid_model|model_not_found|unsupported_model/i
Throw == [kind |-> "throw"]
Resp(s, u, j, c) == [kind |-> "resp", status |-> s, unsupported |-> u, json |-> j, secret |-> c]
UpstreamOutcomes ==
    {Throw}
    \cup {Resp(200, FALSE, TRUE, TRUE), Resp(200, FALSE, TRUE, FALSE), Resp(200, FALSE, FALSE, FALSE)}
    \cup {Resp(s, u, FALSE, FALSE) : s \in {400, 404, 429, 503}, u \in BOOLEAN}

\* body.model as the caller may send it: absent (""), the two models the
\* endpoint names, or any other string (route.ts:30)
otherModel == "gpt-realtime"
BodyModels == {"", cheapDefaultModel, fallbackModel, otherModel}
\* what req.json() may resolve to: the JSON literal null, or an object with the
\* model the caller sent (a body that does not parse becomes {}, route.ts:27)
NullBody == [kind |-> "null"]
Bodies == {NullBody} \cup {[kind |-> "object", model |-> m] : m \in BodyModels}

\* Response.ok
ResOk(res) == res.kind = "resp" /\ res.status >= 200 /\ res.status <= 299

\* route.ts:74-79, the condition of the fallback branch
FallbackEligibleAnyModel(res, m) ==
    /\ res.status >= 400
    /\ res.status < 500
    /\ res.unsupported
FallbackEligible(res, m) ==
    /\ res.status >= 400
    /\ res.status < 500
    /\ m = cheapDefaultModel
    /\ res.unsupported

retryableAnyError(res) == res.status >= 400

\* route.ts:90
retryable(res) == res.status = 429 \/ res.status >= 500

\* route.ts:55 and 91
isLast(a) == a = maxAttempts

\* route.ts:38, the loop condition `attempt <= maxAttempts`
LoopOpenEnded(a) == a <= maxAttempts + 1
LoopCondition(a) == a <= maxAttempts

\* route.ts:86-87 with the for-loop's attempt++: `continue` after the switch
\* to the fallback model consumes one of the maxAttempts iterations.
AfterFallbackAttempt(a) == a + 1

RECURSIVE Pow2(_)
Pow2(n) == IF n <= 0 THEN 1 ELSE 2 * Pow2(n - 1)
\* route.ts:64 and 106
backoffMs(a) == 250 * Pow2(a - 1)

TokenInit ==
    /\ tkPc = "idle"
    /\ attempt = 0
    /\ model = ""
    /\ openaiRes = NoRes
    /\ lastDetails = FALSE
    /\ upstreamLog = <<>>
    /\ sleptMs = 0
    /\ tkResponse = NoRes

\* route.ts:20-37: entry of POST up to the loop.  `body.model` on the body
\* null throws, and the catch of 159-165 answers 500
TokenPOST(hasKey, body) ==
    /\ tkPc = "idle"
    /\ IF ~hasKey \/ body = NullBody
       THEN /\ tkPc' = "done"
            /\ tkResponse' = [kind |-> "json", status |-> 500, token |-> FALSE, model |-> ""]
            /\ UNCHANGED <<attempt, model>>
       ELSE /\ tkPc' = "loop"
            /\ model' = IF body.model = "" THEN cheapDefaultModel ELSE body.model
            /\ attempt' = 1
            /\ UNCHANGED tkResponse
    /\ UNCHANGED <<openaiRes, lastDetails, upstreamLog, sleptMs>>

\* route.ts:38-50: the loop test and the fetch of one iteration
TokenLoopStep ==
    /\ tkPc = "loop"
    /\ IF LoopCondition(attempt)
       THEN /\ tkPc' = "await"
            /\ upstreamLog' = Append(upstreamLog, [model |-> model, outcome |-> NoRes])
       ELSE /\ tkPc' = "after"
            /\ UNCHANGED upstreamLog
    /\ UNCHANGED <<attempt, model, openaiRes, lastDetails, sleptMs, tkResponse>>

\* route.ts:51-107: what one iteration does with the outcome of its fetch
TokenUpstream(o) ==
    /\ tkPc = "await"
    /\ upstreamLog' = [upstreamLog EXCEPT ![Len(upstreamLog)].outcome = o]
    /\ UNCHANGED tkResponse
    /\ IF o.kind = "throw"
       THEN /\ openaiRes' = NoRes
            /\ UNCHANGED <<model, lastDetails, attempt>>
            /\ IF isLast(attempt)
               THEN tkPc' = "after" /\ UNCHANGED sleptMs
               ELSE tkPc' = "sleep" /\ sleptMs' = sleptMs + backoffMs(attempt)
       ELSE /\ openaiRes' = o
            /\ IF ResOk(o)
               THEN /\ tkPc' = "after"
                    /\ UNCHANGED <<model, lastDetails, attempt, sleptMs>>
               ELSE /\ lastDetails' = TRUE
                    /\ IF FallbackEligible(o, model)
                       THEN /\ model' = fallbackModel
                            /\ attempt' = AfterFallbackAttempt(attempt)
                            /\ tkPc' = "loop"
                            /\ UNCHANGED sleptMs
                       ELSE /\ UNCHANGED <<model, attempt>>
                            /\ IF ~retryable(o) \/ isLast(attempt)
                               THEN tkPc' = "after" /\ UNCHANGED sleptMs
                               ELSE tkPc' = "sleep" /\ sleptMs' = sleptMs + backoffMs(attempt)

\* route.ts:65-66 and 107: the sleep ends, the for statement increments attempt
TokenSleepDone ==
    /\ tkPc = "sleep"
    /\ tkPc' = "loop"
    /\ attempt' = attempt + 1
    /\ UNCHANGED <<model, openaiRes, lastDetails, upstreamLog, sleptMs, tkResponse>>

TokenResponseTrustsUpstream(res, m) ==
    IF res = NoRes
    THEN [kind |-> "json", status |-> 500, token |-> FALSE, model |-> ""]
    ELSE IF ~ResOk(res)
    THEN [kind |-> "json", status |-> res.status, token |-> FALSE, model |-> ""]
    ELSE IF ~res.json
    THEN [kind |-> "json", status |-> 500, token |-> FALSE, model |-> ""]
    ELSE [kind |-> "json", status |-> 200, token |-> res.secret, model |-> m]

\* route.ts:110-158: the response built after the loop
TokenResponse(res, m) ==
    IF res = NoRes
    THEN [kind |-> "json", status |-> 500, token |-> FALSE, model |-> ""]
    ELSE IF ~ResOk(res)
    THEN [kind |-> "json", status |-> res.status, token |-> FALSE, model |-> ""]
    ELSE IF ~res.json
    THEN [kind |-> "json", status |-> 500, token |-> FALSE, model |-> ""]
    ELSE IF ~res.secret
    THEN [kind |-> "json", status |-> 500, token |-> FALSE, model |-> ""]
    ELSE [kind |-> "json", status |-> 200, token |-> TRUE, model |-> m]

TokenRespond ==
    /\ tkPc = "after"
    /\ tkPc' = "done"
    /\ tkResponse' = TokenResponse(openaiRes, model)
    /\ UNCHANGED <<attempt, model, openaiRes, lastDetails, upstreamLog, sleptMs>>

TokenNext ==
    \/ \E hasKey \in BOOLEAN, body \in Bodies : TokenPOST(hasKey, body)
    \/ TokenLoopStep
    \/ \E o \in UpstreamOutcomes : TokenUpstream(o)
    \/ TokenSleepDone
    \/ TokenRespond

(***************************************************************************)
(* Part III.  The remote audio meter (the tick of pc.ontrack) and the      *)
(* 'eeknova-assistant-audio' events.  Levels are counted in 1/10000.       *)
(***************************************************************************)
VARIABLES
    meterPc,       \* off (no remote track yet), on (tick scheduled), closed
    meterNow,      \* Date.now() of the last frame
    lastSpeakAt,   \* `let lastSpeakAt` of the ontrack closure
    frames,        \* the frames measured by this meter: <<[at, level]>>
    audioEvent     \* detail of the last event dispatched, NoEvent before the first

meterVars == <<meterPc, meterNow, lastSpeakAt, frames, audioEvent>>

MaxFrames == 4       \* frames measured by one meter

NoEvent == [by |-> "none"]
\* Date.now() when the remote track arrives
MeterStartMs == 50000
\* what the analyser may deliver: <<rms, peak>> of one buffer, rms <= peak
Samples == {<<0, 0>>, <<20, 75>>, <<38, 50>>, <<1000, 2000>>}
\* the time between two animation frames, in ms
FrameGaps == {16, 164, 180}

HANGOVER_MS == 180

Max2(a, b) == IF a >= b THEN a ELSE b
Min2(a, b) == IF a <= b THEN a ELSE b
\* AssistantShell.tsx:785
remoteLevel(rms, peak) == Max2(0, Min2(10000, Max2(rms * 12, peak * 6)))
\* AssistantShell.tsx:787, lvl > 0.045
AboveThreshold(lvl) == lvl > 450
isSpeakingInclusive(now, last) == now - last <= HANGOVER_MS
\* AssistantShell.tsx:788
isSpeakingAt(now, last) == now - last < HANGOVER_MS

MeterInit ==
    /\ meterPc = "off"
    /\ meterNow = MeterStartMs
    /\ lastSpeakAt = 0
    /\ frames = <<>>
    /\ audioEvent = NoEvent

\* AssistantShell.tsx:726-768 and 805: pc.ontrack sets the meter up
MeterStart ==
    /\ meterPc = "off"
    /\ meterPc' = "on"
    /\ lastSpeakAt' = 0
    /\ UNCHANGED <<meterNow, frames, audioEvent>>

\* AssistantShell.tsx:769-804: one tick, dt ms after the last one
MeterTick(rms, peak, dt) ==
    /\ meterPc = "on"
    /\ Len(frames) < MaxFrames
    /\ LET now == meterNow + dt
           lvl == remoteLevel(rms, peak)
           last == IF AboveThreshold(lvl) THEN now ELSE lastSpeakAt
       IN  /\ meterNow' = now
           /\ lastSpeakAt' = last
           /\ frames' = Append(frames, [at |-> now, level |-> lvl])
           /\ audioEvent' = [by |-> "tick", level |-> lvl,
                             isSpeaking |-> isSpeakingAt(now, last),
                             source |-> "realtime"]
    /\ UNCHANGED meterPc

\* AssistantShell.tsx:564-586: closeAssistant cancels the tick and dispatches
\* a last event
MeterClose ==
    /\ meterPc' = IF meterPc = "on" THEN "closed" ELSE meterPc
    /\ audioEvent' = [by |-> "close", level |-> 0, isSpeaking |-> FALSE,
                      source |-> "realtime"]
    /\ UNCHANGED <<meterNow, lastSpeakAt, frames>>

MeterNext ==
    \/ MeterStart
    \/ \E sm \in Samples, dt \in FrameGaps : MeterTick(sm[1], sm[2], dt)
    \/ MeterClose

(***************************************************************************)
(* Part II.  AssistantShell                                                *)
(*                                                                         *)
(* Every handler runs to completion on the UI thread.  A handler reads     *)
(* React state through the closure of the render that created it (the      *)
(* record r below, the variable rendered) and refs through their live      *)
(* value (the record s, which also carries the state updates the handler   *)
(* has queued).  When the handler of a click, a key or a pointer event     *)
(* sets state, it is followed at once by one render of the queued updates  *)
(* and its commit, in which the effects whose dependencies changed run     *)
(* (Commit, Do).  The                                                      *)
(* updates of any other handler (a recognizer or channel event, a timer,   *)
(* the continuation of a promise) and the updates the effects of a commit  *)
(* queue are rendered in a later task (CommitRender), and other handlers   *)
(* may run before it (Defer).                                              *)
(***************************************************************************)
VARIABLES
    \* React state (useState)
    open, realtimeStatus, wakeStatus, wakeWordEnabled, micMonitorEnabled, error,
    wakeLastError, selectedMicDeviceId, useRawMic,
    rendered,        \* the React state of the last commit, as far as closures read it
    deferred,        \* handlers run since a state update that is not committed yet
    \* refs (useRef)
    openRef, realtimeAttemptRef, rtcRef, rtcDataRef, audioStreamRef,
    rtcStatsIntervalRef, remoteAudioRafRef, micMeterRafRef, micMonitorStreamRef,
    speechRecRef, speechRecShouldRunRef, speechRecIsRunningRef,
    micMeterLoops,   \* ticks of startMicMeter with a frame requested (217, 219)
    recInstances,    \* SpeechRecognition objects constructed so far (`new SR()`)
    lastAudioBy,     \* who dispatched the last 'eeknova-assistant-audio' event: none, close, tick
    lastWakeTriggerAtRef, lastExitTriggerAtRef,
    \* the browser
    srSupported,     \* window.SpeechRecognition exists
    gestureArmed,    \* the once-only pointerdown listener is registered
    rec,             \* the SpeechRecognition object's state
    restartTimers,   \* pending setTimeout(..., 350) of rec.onend
    closeTimers,     \* pending setTimeout(..., 250) of closeAssistant whose startMicMonitor
                     \* will pass its early returns (the others do nothing)
    monitorGum,      \* getUserMedia calls of startMicMonitor not yet settled
    monitorResume,   \* startMicMeter calls of startMicMonitor awaiting ctx.resume()
    devicesPending,  \* enumerateDevices calls of loadDevices not yet settled, made by
                     \* a render without a selected device (the others set no state
                     \* but the list of the menu)
    monitorLeak,     \* a live monitor stream exists that no ref points to any more
    conn,            \* per attempt id: the async call and the objects it created
    \* history: the instants at which the recognizer last delivered a wake phrase,
    \* and at which a handler last tested an exit phrase against the exit cooldown
    heardWakeAt, heardExitAt

shellVars == <<open, realtimeStatus, wakeStatus, wakeWordEnabled, micMonitorEnabled, error,
               wakeLastError, selectedMicDeviceId, useRawMic, rendered, deferred,
               monitorResume, devicesPending, micMeterLoops,
               openRef, realtimeAttemptRef, rtcRef, rtcDataRef, audioStreamRef,
               rtcStatsIntervalRef, remoteAudioRafRef, micMeterRafRef, micMonitorStreamRef,
               speechRecRef, speechRecShouldRunRef, speechRecIsRunningRef,
               recInstances, lastAudioBy,
               lastWakeTriggerAtRef, lastExitTriggerAtRef,
               srSupported, gestureArmed, rec, restartTimers, closeTimers, monitorGum,
               monitorLeak, conn, heardWakeAt, heardExitAt>>

\* bounds of the exploration
MaxAttempt == 1      \* attempt ids of the sessions started, all events enabled
MaxVoice == 2        \* the same, monitor disabled and the network reliable
MaxSpoken == 3       \* the same, sessions started by voice alone
MaxHandover == 4     \* the same, in the handover scenario
MaxTrack == 3        \* the same, in the handover scenario with the remote track
MaxInFlight == 1     \* connect attempts in flight at once, monitor disabled
MaxTicks == 2        \* instants after the first at which a transcript arrives
MaxMonitorGum == 4   \* monitor getUserMedia calls in flight
MaxTimers == 1       \* pending timers of one kind
MaxDeferred == 2     \* handlers run between a state update and its commit
MaxDevices == 1      \* enumerateDevices calls of loadDevices in flight
MaxMeterLoops == 2   \* ticks of the microphone meter with a frame requested

\* The instants at which transcripts arrive, from an epoch far above the
\* cooldowns: alternately inside the exit cooldown of the one before and at
\* the limit of the wake cooldown of the one two before.
StartMs == 10000
ShortGapMs == 1250
LongGapMs == 8000
ClockAt(k) == StartMs + (k \div 2) * LongGapMs + (k % 2) * ShortGapMs
Instants == {ClockAt(k) : k \in 0..MaxTicks}
SetMax(S) == CHOOSE x \in S : \A y \in S : y <= x
\* Date.now() never returns less than a time stamp kept from an earlier call
Later(s) ==
    {t \in Instants : t >= SetMax({s.lastWakeTriggerAtRef, s.lastExitTriggerAtRef,
                                     s.heardWakeAt, s.heardExitAt})}

WAKE_COOLDOWN_MS == 8000
EXIT_COOLDOWN_MS == 2500

AttemptIds == 1..MaxHandover


\* token and model as startRealtimeSession holds them (691-692) up to their
\* last use (1009-1012) and as the signaling request in flight carries them
\* (1009-1016); none yet
NoCred == [token |-> 0, model |-> ""]
\* tokenJson (690), held as long as token and model; nothing parsed
NoJson == [token |-> 0, model |-> ""]

\* the microphones enumerateDevices lists, the first being the preferred one
\* (495-498, 960-963); "" is no selection
Devices == {"mic-1", "mic-2"}
PreferredDevice == "mic-1"

NoConn == [pos |-> "none", via |-> "none", pc |-> "none", dc |-> "none", mic |-> "none",
           track |-> FALSE, updates |-> 0, tokenJson |-> NoJson, cred |-> NoCred,
           sdpReq |-> NoCred,
           device |-> ""]

\* the whole state as one record
St == [open |-> open, realtimeStatus |-> realtimeStatus, wakeStatus |-> wakeStatus,
       wakeWordEnabled |-> wakeWordEnabled, micMonitorEnabled |-> micMonitorEnabled,
       error |-> error, wakeLastError |-> wakeLastError,
       selectedMicDeviceId |-> selectedMicDeviceId, useRawMic |-> useRawMic,
       monitorResume |-> monitorResume, devicesPending |-> devicesPending,
       micMeterLoops |-> micMeterLoops,
       openRef |-> openRef, realtimeAttemptRef |-> realtimeAttemptRef, rtcRef |-> rtcRef,
       rtcDataRef |-> rtcDataRef, audioStreamRef |-> audioStreamRef,
       rtcStatsIntervalRef |-> rtcStatsIntervalRef, remoteAudioRafRef |-> remoteAudioRafRef,
       micMeterRafRef |-> micMeterRafRef, micMonitorStreamRef |-> micMonitorStreamRef,
       speechRecRef |-> speechRecRef, speechRecShouldRunRef |-> speechRecShouldRunRef,
       recInstances |-> recInstances, lastAudioBy |-> lastAudioBy,
       speechRecIsRunningRef |-> speechRecIsRunningRef,
       lastWakeTriggerAtRef |-> lastWakeTriggerAtRef,
       lastExitTriggerAtRef |-> lastExitTriggerAtRef,
       srSupported |-> srSupported, gestureArmed |-> gestureArmed, rec |-> rec,
       restartTimers |-> restartTimers,
       closeTimers |-> closeTimers, monitorGum |-> monitorGum, monitorLeak |-> monitorLeak,
       conn |-> conn, heardWakeAt |-> heardWakeAt, heardExitAt |-> heardExitAt]

(*---------------------------- microphone monitor -------------------------*)
\* AssistantShell.tsx:160-178: the frame micMeterRafRef holds is cancelled,
\* which ends the tick that requested it
stopMicMeter(s) ==
    [s EXCEPT !.micMeterLoops = IF s.micMeterRafRef THEN @ - 1 ELSE @,
              !.micMeterRafRef = FALSE]

\* AssistantShell.tsx:186-219, startMicMeter after its await: the tick is
\* defined and its first frame requested
startTick(s) == [s EXCEPT !.micMeterLoops = @ + 1, !.micMeterRafRef = TRUE]

\* AssistantShell.tsx:225-231
stopMicMonitor(s) == stopMicMeter([s EXCEPT !.micMonitorStreamRef = FALSE])

\* AssistantShell.tsx:234-238, the early returns of startMicMonitor
MonitorMayStart(r) ==
    /\ r.micMonitorEnabled
    /\ ~(r.open \/ r.realtimeStatus = "connecting" \/ r.realtimeStatus = "connected")
    /\ ~(r.wakeWordEnabled /\ (r.wakeStatus = "starting" \/ r.wakeStatus = "listening"))

\* AssistantShell.tsx:233-251, up to the await of getUserMedia
startMicMonitor(r, s) ==
    IF MonitorMayStart(r) THEN [s EXCEPT !.monitorGum = @ + 1] ELSE s

\* AssistantShell.tsx:256-262
restartMicMonitor(r, s) ==
    IF MonitorMayStart(r) THEN startMicMonitor(r, stopMicMonitor(s)) ELSE s

(*---------------------------- wake-word recognizer -----------------------*)
\* The recognizer of the browser: inactive, starting (start() called), running
\* (start event delivered), stopping (stop() called while running: one final
\* result may still be delivered), ending (only the end event is to come).
\* SpeechRecognition.start(): InvalidStateError (caught) unless inactive
RecStart(s) == IF s.rec = "inactive" THEN [s EXCEPT !.rec = "starting"] ELSE s
\* SpeechRecognition.stop()
RecStop(s) ==
    IF s.rec = "running" THEN [s EXCEPT !.rec = "stopping"]
    ELSE IF s.rec = "starting" THEN [s EXCEPT !.rec = "ending"]
    ELSE s

\* AssistantShell.tsx:273-416
startWakeWord(r, s) ==
    IF s.speechRecIsRunningRef THEN s
    ELSE IF ~s.srSupported
    THEN [s EXCEPT !.error = "wake-unsupported", !.wakeWordEnabled = FALSE]
    ELSE RecStart([s EXCEPT !.wakeStatus = "starting", !.wakeLastError = "",
                            !.speechRecShouldRunRef = TRUE,
                            !.recInstances = IF s.speechRecRef THEN @ ELSE @ + 1,
                            !.speechRecRef = TRUE])

stopWakeWordDropsInstance(s) ==
    LET t == [s EXCEPT !.speechRecShouldRunRef = FALSE, !.wakeStatus = "idle"]
    IN  IF t.speechRecRef THEN [RecStop(t) EXCEPT !.speechRecRef = FALSE] ELSE t

\* AssistantShell.tsx:462-468
stopWakeWord(s) ==
    LET t == [s EXCEPT !.speechRecShouldRunRef = FALSE, !.wakeStatus = "idle"]
    IN  IF t.speechRecRef THEN RecStop(t) ELSE t

(*---------------------------- assistant session --------------------------*)
\* AssistantShell.tsx:264-271
openAssistant(s) == [s EXCEPT !.error = "", !.open = TRUE]

\* RTCDataChannel.close(): the close event is delivered later
DcClose(s, id) ==
    IF s.conn[id].dc \in {"connecting", "open"}
    THEN [s EXCEPT !.conn[id].dc = "closing"] ELSE s
\* RTCPeerConnection.close(): closes its data channel too
PcClose(s, id) == DcClose([s EXCEPT !.conn[id].pc = "closed"], id)
\* MediaStreamTrack.stop() on every track of the stream an attempt acquired
StopMic(s, id) == [s EXCEPT !.conn[id].mic = "stopped"]

\* AssistantShell.tsx:533-632
closeAssistant(r, s) ==
    LET a == stopMicMeter([s EXCEPT !.realtimeAttemptRef = @ + 1])
        b == IF a.rtcDataRef # 0 THEN DcClose(a, a.rtcDataRef) ELSE a
        c == [b EXCEPT !.rtcDataRef = 0, !.rtcStatsIntervalRef = FALSE,
                       !.remoteAudioRafRef = FALSE, !.lastAudioBy = "close"]
        d == IF c.rtcRef # 0 THEN PcClose(c, c.rtcRef) ELSE c
        e == [d EXCEPT !.rtcRef = 0, !.realtimeStatus = "idle"]
        f == IF e.audioStreamRef # 0 THEN StopMic(e, e.audioStreamRef) ELSE e
        g == [f EXCEPT !.audioStreamRef = 0, !.open = FALSE,
                       !.closeTimers = IF MonitorMayStart(r) THEN @ + 1 ELSE @]
    IN  g

startRealtimeSessionUnguarded(r, s, via) ==
    LET attemptId == s.realtimeAttemptRef + 1
    IN  [s EXCEPT !.realtimeAttemptRef = attemptId,
                  !.error = "",
                  !.realtimeStatus = "connecting",
                  !.conn = IF attemptId \in DOMAIN @
                           THEN [@ EXCEPT ![attemptId] =
                                    [NoConn EXCEPT !.pos = "token", !.via = via,
                                                    !.device = r.selectedMicDeviceId]]
                           ELSE @]

startRealtimeSessionReusesId(r, s, via) ==
    IF r.realtimeStatus = "connecting" \/ r.realtimeStatus = "connected"
    THEN s
    ELSE LET attemptId == s.realtimeAttemptRef
         IN  [s EXCEPT !.realtimeAttemptRef = attemptId,
                       !.error = "",
                       !.realtimeStatus = "connecting",
                       !.conn = IF attemptId \in DOMAIN @
                                THEN [@ EXCEPT ![attemptId] =
                                         [NoConn EXCEPT !.pos = "token", !.via = via,
                                                    !.device = r.selectedMicDeviceId]]
                                ELSE @]

\* AssistantShell.tsx:654-677, up to the await of the credential fetch
startRealtimeSession(r, s, via) ==
    IF r.realtimeStatus = "connecting" \/ r.realtimeStatus = "connected"
    THEN s
    ELSE LET attemptId == s.realtimeAttemptRef + 1
         IN  [s EXCEPT !.realtimeAttemptRef = attemptId,
                       !.error = "",
                       !.realtimeStatus = "connecting",
                       !.conn = IF attemptId \in DOMAIN @
                                THEN [@ EXCEPT ![attemptId] =
                                         [NoConn EXCEPT !.pos = "token", !.via = via,
                                                    !.device = r.selectedMicDeviceId]]
                                ELSE @]

\* the promise startRealtimeSession returned rejects:
\* AssistantShell.tsx:1332-1336 (.catch of handleMicClick); the wake branch
\* (363) attaches no handler
Reject(s, id) ==
    LET t == [s EXCEPT !.conn[id].pos = "end", !.conn[id].tokenJson = NoJson,
                       !.conn[id].cred = NoCred]
    IN  IF s.conn[id].via = "button"
        THEN [t EXCEPT !.realtimeStatus = "error", !.error = "realtime"]
        ELSE t

(*---------------------------- effects -----------------------------------*)
\* The React state a closure or a dependency list reads (error and
\* wakeLastError are read by the markup only).
Rendered(s) == [open |-> s.open, realtimeStatus |-> s.realtimeStatus,
                wakeStatus |-> s.wakeStatus, wakeWordEnabled |-> s.wakeWordEnabled,
                micMonitorEnabled |-> s.micMonitorEnabled,
                selectedMicDeviceId |-> s.selectedMicDeviceId,
                useRawMic |-> s.useRawMic]

\* AssistantShell.tsx:479, the dependencies of the wake-word effect
\* (startWakeWord changes with open and wakeWordEnabled, 416)
WakeDepsChanged(r, c) ==
    r.open # c.open \/ r.realtimeStatus # c.realtimeStatus
        \/ r.wakeWordEnabled # c.wakeWordEnabled
\* AssistantShell.tsx:254, the dependencies of startMicMonitor, on which the
\* monitor effect (527) and restartMicMonitor (262, 514) depend
MonitorDepsChanged(r, c) ==
    r.micMonitorEnabled # c.micMonitorEnabled \/ r.open # c.open
        \/ r.realtimeStatus # c.realtimeStatus \/ r.wakeStatus # c.wakeStatus
        \/ r.wakeWordEnabled # c.wakeWordEnabled
        \/ r.selectedMicDeviceId # c.selectedMicDeviceId \/ r.useRawMic # c.useRawMic
\* AssistantShell.tsx:426
PauseDepsChanged(r, c) ==
    r.micMonitorEnabled # c.micMonitorEnabled \/ r.open # c.open
        \/ r.realtimeStatus # c.realtimeStatus \/ r.wakeWordEnabled # c.wakeWordEnabled

\* AssistantShell.tsx:460
GestureDepsChanged(r, c) ==
    r.open # c.open \/ r.realtimeStatus # c.realtimeStatus
        \/ r.wakeStatus # c.wakeStatus \/ r.wakeWordEnabled # c.wakeWordEnabled

\* AssistantShell.tsx:516-526: the monitor effect returned a cleanup
MonitorEffectHasCleanup(r) ==
    /\ r.micMonitorEnabled
    /\ ~(r.wakeWordEnabled /\ (r.wakeStatus = "starting" \/ r.wakeStatus = "listening")
            /\ ~r.open)

\* AssistantShell.tsx:418-426
PauseMonitorEffect(c, w) ==
    IF c.wakeWordEnabled /\ c.micMonitorEnabled /\ ~c.open
          /\ c.realtimeStatus # "connected" /\ c.realtimeStatus # "connecting"
    THEN stopMicMonitor(w) ELSE w

\* AssistantShell.tsx:443-460: the cleanup removes the listener, the body
\* registers one for the next pointerdown
FirstGestureEffect(c, w) == [w EXCEPT !.gestureArmed = c.wakeWordEnabled]

\* AssistantShell.tsx:470-479, the body
WakeWordEffect(c, w) ==
    IF ~c.wakeWordEnabled THEN stopWakeWord(w) ELSE startWakeWord(c, w)

\* AssistantShell.tsx:516-527, the body
MicMonitorEffect(c, w) ==
    IF ~c.micMonitorEnabled THEN stopMicMonitor(w)
    ELSE IF c.wakeWordEnabled /\ (c.wakeStatus = "starting" \/ c.wakeStatus = "listening")
               /\ ~c.open
    THEN w
    ELSE startMicMonitor(c, w)

\* AssistantShell.tsx:481-509: loadDevices, up to the await of enumerateDevices
loadDevices(c, w) ==
    IF c.selectedMicDeviceId = "" THEN [w EXCEPT !.devicesPending = @ + 1] ELSE w

\* AssistantShell.tsx:1118-1132, the body: the startRealtimeSession it calls is
\* the one of the render c, whose status is connected, and returns at once
\* (655)
RawMicEffect(c, w) ==
    IF ~c.open \/ c.realtimeStatus # "connected" THEN w
    ELSE [closeAssistant(c, w) EXCEPT !.realtimeStatus = "connecting"]

\* One commit: r is the previous render, c the new one.  The cleanups of the
\* effects whose dependencies changed run first, then their bodies, in the
\* order of the source.  The result carries the state updates the effects
\* queued.
RunEffects(r, c) ==
    LET w1 == IF WakeDepsChanged(r, c) /\ r.wakeWordEnabled THEN stopWakeWord(c) ELSE c
        w2 == IF MonitorDepsChanged(r, c) /\ MonitorEffectHasCleanup(r)
              THEN stopMicMonitor(w1) ELSE w1
        w3 == [w2 EXCEPT !.openRef = c.open]                                  \* 96-106
        w4 == IF PauseDepsChanged(r, c) THEN PauseMonitorEffect(c, w3) ELSE w3
        g4 == IF GestureDepsChanged(r, c) THEN FirstGestureEffect(c, w4) ELSE w4
        w5 == IF WakeDepsChanged(r, c) THEN WakeWordEffect(c, g4) ELSE g4
        d5 == IF r.selectedMicDeviceId # c.selectedMicDeviceId
              THEN loadDevices(c, w5) ELSE w5                                  \* 481-509
        w6 == IF MonitorDepsChanged(r, c) THEN restartMicMonitor(c, d5) ELSE d5  \* 511-514
        w7 == IF MonitorDepsChanged(r, c) THEN MicMonitorEffect(c, w6) ELSE w6
    IN  CHOOSE w8 \in {IF r.useRawMic # c.useRawMic THEN RawMicEffect(c, w) ELSE w :
                          w \in {w7}} : TRUE                                  \* 1118-1132

\* One render of the queued updates and its commit: nothing is rendered when
\* no update is queued; the updates the effects queue wait for the next render.
Commit(r, s) ==
    CHOOSE out \in {IF p = Rendered(c) THEN c ELSE RunEffects(p, c) :
                       p \in {r}, c \in {s}} : TRUE

\* AssistantShell.tsx:21-74, the values of useState in the first render
FirstRender ==
    [open |-> FALSE, realtimeStatus |-> "idle", wakeStatus |-> "idle",
     wakeWordEnabled |-> TRUE, micMonitorEnabled |-> FALSE,
     selectedMicDeviceId |-> "", useRawMic |-> FALSE]

\* The first render and the effects of its commit (every effect runs, none has
\* a cleanup); the updates they queue are not rendered yet: saved is
\* localStorage's eeknova_micMonitorEnabled (132-137), savedMic its
\* eeknova_selectedMicDeviceId (115-119), savedRaw its eeknova_useRawMic
\* (108-113).
Mount(sr, saved, savedMic, savedRaw) ==
    LET c == [open |-> FALSE, realtimeStatus |-> "idle", wakeStatus |-> "idle",
              wakeWordEnabled |-> TRUE, micMonitorEnabled |-> FALSE, error |-> "",
              wakeLastError |-> "", selectedMicDeviceId |-> "", useRawMic |-> FALSE,
              monitorResume |-> 0, devicesPending |-> 0, micMeterLoops |-> 0,
              openRef |-> FALSE, realtimeAttemptRef |-> 0, rtcRef |-> 0, rtcDataRef |-> 0,
              audioStreamRef |-> 0, rtcStatsIntervalRef |-> FALSE,
              remoteAudioRafRef |-> FALSE, micMeterRafRef |-> FALSE,
              micMonitorStreamRef |-> FALSE, speechRecRef |-> FALSE,
              recInstances |-> 0, lastAudioBy |-> "none",
              speechRecShouldRunRef |-> FALSE, speechRecIsRunningRef |-> FALSE,
              lastWakeTriggerAtRef |-> 0, lastExitTriggerAtRef |-> 0,
              srSupported |-> sr, gestureArmed |-> FALSE, rec |-> "inactive",
              restartTimers |-> 0,
              closeTimers |-> 0, monitorGum |-> 0, monitorLeak |-> FALSE,
              conn |-> [i \in AttemptIds |-> NoConn], heardWakeAt |-> 0, heardExitAt |-> 0]
        w1 == [c EXCEPT !.micMonitorEnabled = saved, !.selectedMicDeviceId = savedMic,
                        !.useRawMic = savedRaw]
        w2 == FirstGestureEffect(c, PauseMonitorEffect(c, w1))
        w3 == WakeWordEffect(c, w2)
        d3 == loadDevices(c, w3)
        w4 == restartMicMonitor(c, d3)
        w5 == MicMonitorEffect(c, w4)
    IN  RawMicEffect(c, w5)

WithinBounds(s) ==
    /\ s.closeTimers <= MaxTimers
    /\ s.monitorGum + s.monitorResume <= MaxMonitorGum
    /\ s.devicesPending <= MaxDevices
    /\ s.micMeterLoops <= MaxMeterLoops
    /\ s.restartTimers <= MaxTimers

Apply(s) ==
    /\ WithinBounds(s)
    /\ open' = s.open /\ realtimeStatus' = s.realtimeStatus /\ wakeStatus' = s.wakeStatus
    /\ wakeWordEnabled' = s.wakeWordEnabled /\ micMonitorEnabled' = s.micMonitorEnabled
    /\ error' = s.error /\ wakeLastError' = s.wakeLastError
    /\ selectedMicDeviceId' = s.selectedMicDeviceId /\ useRawMic' = s.useRawMic
    /\ monitorResume' = s.monitorResume /\ devicesPending' = s.devicesPending
    /\ micMeterLoops' = s.micMeterLoops
    /\ openRef' = s.openRef /\ realtimeAttemptRef' = s.realtimeAttemptRef
    /\ rtcRef' = s.rtcRef /\ rtcDataRef' = s.rtcDataRef /\ audioStreamRef' = s.audioStreamRef
    /\ rtcStatsIntervalRef' = s.rtcStatsIntervalRef
    /\ remoteAudioRafRef' = s.remoteAudioRafRef /\ micMeterRafRef' = s.micMeterRafRef
    /\ micMonitorStreamRef' = s.micMonitorStreamRef
    /\ speechRecRef' = s.speechRecRef /\ speechRecShouldRunRef' = s.speechRecShouldRunRef
    /\ recInstances' = s.recInstances /\ lastAudioBy' = s.lastAudioBy
    /\ speechRecIsRunningRef' = s.speechRecIsRunningRef
    /\ lastWakeTriggerAtRef' = s.lastWakeTriggerAtRef
    /\ lastExitTriggerAtRef' = s.lastExitTriggerAtRef
    /\ srSupported' = s.srSupported /\ gestureArmed' = s.gestureArmed
    /\ rec' = s.rec /\ restartTimers' = s.restartTimers
    /\ closeTimers' = s.closeTimers /\ monitorGum' = s.monitorGum
    /\ monitorLeak' = s.monitorLeak /\ conn' = s.conn
    /\ heardWakeAt' = s.heardWakeAt /\ heardExitAt' = s.heardExitAt
    /\ UNCHANGED <<tokenVars, meterVars>>

\* the result s of the handler of a discrete event (click, keydown,
\* pointerdown, change) that set state, followed by one render and its commit
Do(s) ==
    \E c \in {Commit(rendered, s)} :
        Apply(c) /\ rendered' = Rendered(s) /\ deferred' = 0

\* a state update is queued that no render has committed
RenderPending == rendered # Rendered(St)

\* the result s of any other handler: its state updates wait for a later task
Defer(s) ==
    /\ deferred < MaxDeferred
    /\ \E c \in {s} :
          /\ Apply(c)
          /\ rendered' = rendered
          /\ deferred' = IF rendered = Rendered(c) THEN 0 ELSE deferred + 1

\* the task in which React renders the queued updates and runs the effects
CommitRender == RenderPending /\ Do(St)

ShellInit ==
    \E sr \in BOOLEAN, saved \in BOOLEAN, savedMic \in {"", "mic-2"},
       savedRaw \in BOOLEAN :
        \E s \in {Mount(sr, saved, savedMic, savedRaw)} :
        /\ open = s.open /\ realtimeStatus = s.realtimeStatus /\ wakeStatus = s.wakeStatus
        /\ wakeWordEnabled = s.wakeWordEnabled /\ micMonitorEnabled = s.micMonitorEnabled
        /\ error = s.error /\ wakeLastError = s.wakeLastError
        /\ selectedMicDeviceId = s.selectedMicDeviceId /\ useRawMic = s.useRawMic
        /\ rendered = FirstRender /\ deferred = 0
        /\ monitorResume = s.monitorResume /\ devicesPending = s.devicesPending
        /\ micMeterLoops = s.micMeterLoops
        /\ openRef = s.openRef /\ realtimeAttemptRef = s.realtimeAttemptRef
        /\ rtcRef = s.rtcRef /\ rtcDataRef = s.rtcDataRef /\ audioStreamRef = s.audioStreamRef
        /\ rtcStatsIntervalRef = s.rtcStatsIntervalRef
        /\ remoteAudioRafRef = s.remoteAudioRafRef /\ micMeterRafRef = s.micMeterRafRef
        /\ micMonitorStreamRef = s.micMonitorStreamRef
        /\ speechRecRef = s.speechRecRef /\ speechRecShouldRunRef = s.speechRecShouldRunRef
        /\ recInstances = s.recInstances /\ lastAudioBy = s.lastAudioBy
        /\ speechRecIsRunningRef = s.speechRecIsRunningRef
        /\ lastWakeTriggerAtRef = s.lastWakeTriggerAtRef
        /\ lastExitTriggerAtRef = s.lastExitTriggerAtRef
        /\ srSupported = s.srSupported /\ gestureArmed = s.gestureArmed
        /\ rec = s.rec /\ restartTimers = s.restartTimers
        /\ closeTimers = s.closeTimers /\ monitorGum = s.monitorGum
        /\ monitorLeak = s.monitorLeak /\ conn = s.conn
        /\ heardWakeAt = s.heardWakeAt /\ heardExitAt = s.heardExitAt

(*---------------------------- transcripts -------------------------------*)
\* what the recognizer or the transport's transcription may hear: the text of
\* one result
Utterances == { "hello", "hey iknova", "Hey Eeknova", "hi",
                "bye", "bye hello", "ek nova exit", "hey week nova",
                "hey ek\ta nova" }

\* the pattern p is in the text t at the position i
StartsAt(t, i, p) == i + Len(p) - 1 <= Len(t) /\ SubSeq(t, i, i + Len(p) - 1) = p
\* The characters of a text are those of Latin-1, U+0001 to U+00FF (the
\* recognizer's language is en-US, 298).  \s and trim() take as white space the
\* tab, the line feed, the vertical tab, the form feed, the carriage return,
\* the space, the no-break space U+00A0, and further U+1680 and U+FEFF.
WhiteSpace == {" ", "\t", "\n", "", "\f", "\r", " ", " ", "﻿"}
\* \s and \w on the character at the position i of t
IsSpace(t, i) == i >= 1 /\ i <= Len(t) /\ SubSeq(t, i, i) \in WhiteSpace
WordChars == {"a", "b", "c", "d", "e", "f", "g", "h", "i", "j", "k", "l", "m",
              "n", "o", "p", "q", "r", "s", "t", "u", "v", "w", "x", "y", "z",
              "A", "B", "C", "D", "E", "F", "G", "H", "I", "J", "K", "L", "M",
              "N", "O", "P", "Q", "R", "S", "T", "U", "V", "W", "X", "Y", "Z",
              "0", "1", "2", "3", "4", "5", "6", "7", "8", "9", "_"}
IsWordChar(t, i) == i >= 1 /\ i <= Len(t) /\ SubSeq(t, i, i) \in WordChars
\* \s*: the first position from i on that holds no space
RECURSIVE SkipSpaces(_, _)
SkipSpaces(t, i) == IF IsSpace(t, i) THEN SkipSpaces(t, i + 1) ELSE i

\* String.prototype.trim
RECURSIVE TrimLeft(_)
TrimLeft(t) == IF IsSpace(t, 1) THEN TrimLeft(SubSeq(t, 2, Len(t))) ELSE t
RECURSIVE TrimRight(_)
TrimRight(t) == IF IsSpace(t, Len(t)) THEN TrimRight(SubSeq(t, 1, Len(t) - 1)) ELSE t
Trim(t) == TrimRight(TrimLeft(t))

\* String.prototype.toLowerCase: the cased characters of Latin-1 are the
\* letters A to Z, U+00C0 to U+00D6 and U+00D8 to U+00DE
UpperCase == <<"A", "B", "C", "D", "E", "F", "G", "H", "I", "J", "K", "L",
               "M", "N", "O", "P", "Q", "R", "S", "T", "U", "V", "W", "X",
               "Y", "Z", "À", "Á", "Â", "Ã", "Ä", "Å", "Æ", "Ç", "È", "É",
               "Ê", "Ë", "Ì", "Í", "Î", "Ï", "Ð", "Ñ", "Ò", "Ó", "Ô", "Õ",
               "Ö", "Ø", "Ù", "Ú", "Û", "Ü", "Ý", "Þ">>
LowerCase == <<"a", "b", "c", "d", "e", "f", "g", "h", "i", "j", "k", "l",
               "m", "n", "o", "p", "q", "r", "s", "t", "u", "v", "w", "x",
               "y", "z", "à", "á", "â", "ã", "ä", "å", "æ", "ç", "è", "é",
               "ê", "ë", "ì", "í", "î", "ï", "ð", "ñ", "ò", "ó", "ô", "õ",
               "ö", "ø", "ù", "ú", "û", "ü", "ý", "þ">>
LowerChar(c) ==
    IF \E k \in 1..Len(UpperCase) : UpperCase[k] = c
    THEN LowerCase[CHOOSE k \in 1..Len(UpperCase) : UpperCase[k] = c]
    ELSE c
RECURSIVE ToLowerFrom(_, _)
ToLowerFrom(t, i) ==
    IF i > Len(t) THEN "" ELSE LowerChar(SubSeq(t, i, i)) \o ToLowerFrom(t, i + 1)
ToLowerCase(t) == ToLowerFrom(t, 1)

\* AssistantShell.tsx:326-333 and 893-899: the chain of replace() calls on the
\* text.  Each Match gives the position after a match that begins at i, or 0.
MatchEkANova(t, i) ==                                 \* /ek\s+a\s*nova/
    IF ~StartsAt(t, i, "ek") \/ ~IsSpace(t, i + 2) THEN 0
    ELSE LET j == SkipSpaces(t, i + 2)
         IN  IF ~StartsAt(t, j, "a") THEN 0
             ELSE LET k == SkipSpaces(t, j + 1)
                  IN  IF StartsAt(t, k, "nova") THEN k + 4 ELSE 0
MatchAnOva(t, i) ==                                   \* /an\s*ova/
    IF ~StartsAt(t, i, "an") THEN 0
    ELSE LET j == SkipSpaces(t, i + 2)
         IN  IF StartsAt(t, j, "ova") THEN j + 3 ELSE 0
MatchEkNova(t, i) ==                                  \* /ek ?nova/
    IF StartsAt(t, i, "ek nova") THEN i + 7
    ELSE IF StartsAt(t, i, "eknova") THEN i + 6
    ELSE 0

RECURSIVE ReplaceEkANovaFrom(_, _)
ReplaceEkANovaFrom(t, i) ==
    IF i > Len(t) THEN ""
    ELSE IF MatchEkANova(t, i) > 0
    THEN "eeknova" \o ReplaceEkANovaFrom(t, MatchEkANova(t, i))
    ELSE SubSeq(t, i, i) \o ReplaceEkANovaFrom(t, i + 1)
ReplaceEkANova(t) == ReplaceEkANovaFrom(t, 1)         \* .replace(/ek\s+a\s*nova/g, 'eeknova')

RECURSIVE ReplaceAnOvaFrom(_, _)
ReplaceAnOvaFrom(t, i) ==
    IF i > Len(t) THEN ""
    ELSE IF MatchAnOva(t, i) > 0
    THEN "eeknova" \o ReplaceAnOvaFrom(t, MatchAnOva(t, i))
    ELSE SubSeq(t, i, i) \o ReplaceAnOvaFrom(t, i + 1)
ReplaceAnOva(t) == ReplaceAnOvaFrom(t, 1)             \* .replace(/an\s*ova/g, 'eeknova')

RECURSIVE ReplaceEkNovaFrom(_, _)
ReplaceEkNovaFrom(t, i) ==
    IF i > Len(t) THEN ""
    ELSE IF MatchEkNova(t, i) > 0
    THEN "eeknova" \o ReplaceEkNovaFrom(t, MatchEkNova(t, i))
    ELSE SubSeq(t, i, i) \o ReplaceEkNovaFrom(t, i + 1)
ReplaceEkNova(t) == ReplaceEkNovaFrom(t, 1)           \* .replace(/ek ?nova/g, 'eeknova')

\* replace(/p/g, 'eeknova') for a pattern p without operators
RECURSIVE ReplaceLiteralFrom(_, _, _)
ReplaceLiteralFrom(t, i, p) ==
    IF i > Len(t) THEN ""
    ELSE IF StartsAt(t, i, p)
    THEN "eeknova" \o ReplaceLiteralFrom(t, i + Len(p), p)
    ELSE SubSeq(t, i, i) \o ReplaceLiteralFrom(t, i + 1, p)
ReplaceEekNova(t) == ReplaceLiteralFrom(t, 1, "eek nova")     \* /eek nova/g
ReplaceIknova(t) == ReplaceLiteralFrom(t, 1, "iknova")        \* /iknova/g
ReplaceIgnova(t) == ReplaceLiteralFrom(t, 1, "ignova")        \* /ignova/g
ReplaceEekn0va(t) == ReplaceLiteralFrom(t, 1, "eekn0va")      \* /eekn0va/g

\* AssistantShell.tsx:321 and 326-333: norm and norm2 of rec.onresult
Norm2(u) ==
    ReplaceEekn0va(ReplaceIgnova(ReplaceIknova(ReplaceEekNova(
        ReplaceEkNova(ReplaceAnOva(ReplaceEkANova(ToLowerCase(Trim(u)))))))))
\* AssistantShell.tsx:889 and 893-899: norm and norm2 of
\* maybeHandleExitFromTranscript, whose chain has no /eekn0va/
TranscriptNorm2(u) ==
    ReplaceIgnova(ReplaceIknova(ReplaceEekNova(
        ReplaceEkNova(ReplaceAnOva(ReplaceEkANova(ToLowerCase(Trim(u))))))))

\* /\bw\b/.test(t)
HasWord(t, w) ==
    \E i \in 1..Len(t) :
        /\ StartsAt(t, i, w)
        /\ ~IsWordChar(t, i - 1)
        /\ ~IsWordChar(t, i + Len(w))
\* the tests of one text, computed once: AssistantShell.tsx:336 (wantsClose),
\* 338 (hasName), 349 (isHello), 350 (isHiHey)
wantsCloseText(n) == HasWord(n, "bye") \/ HasWord(n, "by") \/ HasWord(n, "exit")
\* AssistantShell.tsx:336
wantsClose(u) == wantsCloseText(Norm2(u))
\* AssistantShell.tsx:900
transcriptWantsClose(u) == wantsCloseText(TranscriptNorm2(u))
\* AssistantShell.tsx:338
hasName(u) == HasWord(Norm2(u), "eeknova") \/ HasWord(Norm2(u), "nova")
\* AssistantShell.tsx:349-350
isHello(u) == HasWord(Norm2(u), "hello")
isHiHey(u) == HasWord(Norm2(u), "hi") \/ HasWord(Norm2(u), "hey")

\* AssistantShell.tsx:354
IsWakePhrase(u) == isHello(u) \/ (isHiHey(u) /\ hasName(u))

\* the outcome of the tests for each text of Utterances, computed once
WakePhrases == {u \in Utterances : IsWakePhrase(u)}
CloseTexts == {u \in Utterances : wantsClose(u)}
TranscriptCloseTexts == {u \in Utterances : transcriptWantsClose(u)}
HeardWake(u) == IF u \in Utterances THEN u \in WakePhrases ELSE IsWakePhrase(u)
HeardClose(u) == IF u \in Utterances THEN u \in CloseTexts ELSE wantsClose(u)
TranscriptHeardClose(u) ==
    IF u \in Utterances THEN u \in TranscriptCloseTexts ELSE transcriptWantsClose(u)

\* AssistantShell.tsx:342 and 902
ExitCooldownNone(s, t) == FALSE
ExitCooldown(s, t) == t - s.lastExitTriggerAtRef < EXIT_COOLDOWN_MS
\* AssistantShell.tsx:356
WakeCooldownNone(s, t) == FALSE
WakeCooldownShared(s, t) ==
    t - SetMax({s.lastWakeTriggerAtRef, s.lastExitTriggerAtRef}) < WAKE_COOLDOWN_MS
WakeCooldown(s, t) == t - s.lastWakeTriggerAtRef < WAKE_COOLDOWN_MS

\* AssistantShell.tsx:307-368, rec.onresult, Date.now() returning t
onresult(r, s, u, t) ==
    IF HeardClose(u) /\ s.openRef
    THEN IF ExitCooldown(s, t) THEN s
         ELSE closeAssistant(r, [s EXCEPT !.lastExitTriggerAtRef = t])
    ELSE IF ~HeardWake(u) THEN s
    ELSE IF WakeCooldown(s, t) THEN s
    ELSE LET a == [s EXCEPT !.lastWakeTriggerAtRef = t]
             b == IF ~a.openRef THEN openAssistant(a) ELSE a
         IN  startRealtimeSession(r, b, "wake")

\* AssistantShell.tsx:887-907, Date.now() returning t
maybeHandleExitFromTranscript(r, s, u, t) ==
    IF ~TranscriptHeardClose(u) THEN s
    ELSE IF ExitCooldown(s, t) THEN s
    ELSE closeAssistant(r, [s EXCEPT !.lastExitTriggerAtRef = t])

(*---------------------------- user actions ------------------------------*)
\* AssistantShell.tsx:1323-1342
handleMicClick(r, s) ==
    IF r.open THEN closeAssistant(r, s)
    ELSE startRealtimeSession(r, openAssistant(s), "button")

MicClick == Do(handleMicClick(rendered, St))

\* AssistantShell.tsx:1356-1365
KeyEscape == rendered.open /\ Do(closeAssistant(rendered, St))

\* AssistantShell.tsx:449-458, onFirstGesture: the first pointerdown since the
\* listener was registered.  When it returns early, or startWakeWord does
\* (277-280), no state is set and nothing is rendered.
PointerDown ==
    /\ gestureArmed
    /\ LET s == [St EXCEPT !.gestureArmed = FALSE]
       IN  IF ~rendered.wakeWordEnabled \/ rendered.wakeStatus = "listening"
                \/ (rendered.open /\ rendered.realtimeStatus = "connected")
                \/ speechRecIsRunningRef
           THEN Defer(s)
           ELSE Do(startWakeWord(rendered, s))

\* AssistantShell.tsx:1393-1397
ToggleMonitor == Do([St EXCEPT !.micMonitorEnabled = ~rendered.micMonitorEnabled])

\* AssistantShell.tsx:1401-1404: the menu of microphones changes to d
SelectMic(d) ==
    /\ d # rendered.selectedMicDeviceId
    /\ Do([St EXCEPT !.selectedMicDeviceId = d])

(*---------------------------- media device events -----------------------*)
\* AssistantShell.tsx:483-501: enumerateDevices of a loadDevices call settles;
\* preferred is the device 495-498 pick from the list, "" when the list is
\* empty or the call was rejected
DevicesLoaded(preferred) ==
    /\ devicesPending > 0
    /\ LET s == [St EXCEPT !.devicesPending = @ - 1]
       IN  Defer(IF preferred # "" THEN [s EXCEPT !.selectedMicDeviceId = preferred]
                 ELSE s)

\* AssistantShell.tsx:503-506: the devicechange event; the listener is the one
\* of the last commit
DeviceChange == Defer(loadDevices(rendered, St))

(*---------------------------- recognizer events -------------------------*)
\* AssistantShell.tsx:300-305
RecOnStart ==
    /\ rec = "starting"
    /\ Defer([St EXCEPT !.rec = "running", !.speechRecIsRunningRef = TRUE,
                     !.wakeStatus = "listening", !.wakeLastError = ""])

\* AssistantShell.tsx:307-368, at the instant t
RecOnResult(u, t) ==
    /\ rec \in {"running", "stopping"}
    /\ LET s == [St EXCEPT !.rec = IF @ = "stopping" THEN "ending" ELSE @]
       IN  Defer([onresult(rendered, s, u, t) EXCEPT
                  !.heardWakeAt = IF HeardWake(u) THEN t ELSE @,
                  !.heardExitAt = IF HeardClose(u) /\ openRef THEN t ELSE @])

\* AssistantShell.tsx:370-389, delivered until the end event, also after
\* stop(); wakeWordEnabled is the value of the render that created the
\* recognizer, which is TRUE (startWakeWord runs only then)
ErrorStatusAlwaysError(e) == "error"

\* AssistantShell.tsx:373-380, the wake status the error handler sets
ErrorStatus(e) == IF e = "no-speech" THEN "listening" ELSE "error"

RecOnError(e) ==
    /\ rec \in {"starting", "running", "stopping", "ending"}
    /\ Defer(RecStop([St EXCEPT !.wakeStatus = ErrorStatus(e),
                             !.wakeLastError = IF e = "no-speech" THEN "" ELSE e,
                             !.speechRecShouldRunRef = TRUE]))

\* AssistantShell.tsx:391-405, without the timer's callback
RecOnEnd ==
    /\ rec \in {"running", "stopping", "ending"}
    /\ Defer([St EXCEPT !.rec = "inactive", !.speechRecIsRunningRef = FALSE,
                     !.restartTimers = IF speechRecShouldRunRef THEN @ + 1 ELSE @])

\* AssistantShell.tsx:397, the test of the timer's callback
TimerRestartsAlways(s) == TRUE
TimerRestarts(s) == ~(~s.speechRecShouldRunRef \/ s.speechRecIsRunningRef)

\* AssistantShell.tsx:396-404, the timer's callback
RestartTimer ==
    /\ restartTimers > 0
    /\ LET s == [St EXCEPT !.restartTimers = @ - 1]
       IN  Defer(IF TimerRestarts(s) THEN RecStart(s) ELSE s)

(*---------------------------- monitor events ----------------------------*)
\* AssistantShell.tsx:240-253 and 180-185: getUserMedia of startMicMonitor
\* settles; the stream is kept and startMicMeter runs up to its await of
\* ctx.resume(), or the call was rejected
MonitorGumDone(ok) ==
    /\ monitorGum > 0
    /\ LET s == [St EXCEPT !.monitorGum = @ - 1]
       IN  Defer(IF ok
                 THEN [stopMicMeter([s EXCEPT !.monitorLeak = @ \/ s.micMonitorStreamRef,
                                              !.micMonitorStreamRef = TRUE])
                          EXCEPT !.monitorResume = @ + 1]
                 ELSE s)

\* AssistantShell.tsx:185-219: ctx.resume() of that startMicMeter settles and
\* the first animation frame is requested
MonitorResume ==
    /\ monitorResume > 0
    /\ Defer(startTick([St EXCEPT !.monitorResume = @ - 1]))

\* AssistantShell.tsx:193-218, the tick of startMicMeter: a frame it requested
\* runs, the level is measured and the next frame is requested
MicMeterTick ==
    /\ micMeterLoops > 0
    /\ Defer([St EXCEPT !.micMeterRafRef = TRUE])

\* AssistantShell.tsx:629-631, the timer's callback: startMicMonitor of the
\* render in which closeAssistant was created, past its early returns
CloseTimer ==
    /\ closeTimers > 0
    /\ Defer([St EXCEPT !.closeTimers = @ - 1, !.monitorGum = @ + 1])

(*---------------------------- the connect attempt -----------------------*)
\* AssistantShell.tsx:1007, 1018, 1029: the staleness test
Superseded(s, id) ==
    s.realtimeAttemptRef # id \/ s.conn[id].pc = "closed" \/ s.rtcRef # id

\* startRealtimeSession returns
End(s, id) ==
    [s EXCEPT !.conn[id].pos = "end", !.conn[id].tokenJson = NoJson,
              !.conn[id].cred = NoCred]

afterTokenFetchIgnoresStatus(s, id, o) ==
    IF o = "throw" THEN Reject(s, id)
    ELSE IF s.realtimeAttemptRef # id THEN End(s, id)
    ELSE [s EXCEPT !.conn[id].pos = "tokenJson"]

\* AssistantShell.tsx:673-688: the credential fetch settles.  o is ok, notok
\* (a non-2xx response) or throw (fetch rejects)
afterTokenFetch(s, id, o) ==
    IF o = "throw" THEN Reject(s, id)
    ELSE IF s.realtimeAttemptRef # id THEN End(s, id)
    ELSE IF o = "notok" THEN [s EXCEPT !.conn[id].pos = "tokenText"]
    ELSE [s EXCEPT !.conn[id].pos = "tokenJson"]

\* AssistantShell.tsx:682-687: tokenRes.text() settles
afterTokenText(s, id) ==
    End([s EXCEPT !.realtimeStatus = "error", !.error = "token"], id)

\* The body of a 2xx response to the attempt id, as tokenRes.json() resolves
\* it: the token issued for that request and the model m.  The endpoint
\* returns the model it used, which is the one the client asked for
\* (AssistantShell.tsx:676) or the fallback model (route.ts:86, 158); "" is a
\* body without a model (692).
TokenModels == {"", cheapDefaultModel, fallbackModel}
TokenBody(id, m) == [token |-> id, model |-> m]
\* AssistantShell.tsx:692
modelOrDefault(m) == IF m = "" THEN "gpt-4o-realtime-preview" ELSE m

\* AssistantShell.tsx:690-971: tokenRes.json() settles with body, NoJson when
\* it rejects; the peer connection and the data channel are created and
\* getUserMedia is called
afterTokenJson(s, id, body) ==
    IF body = NoJson THEN Reject(s, id)
    ELSE LET a == [s EXCEPT !.conn[id].pc = "open", !.rtcRef = id,
                            !.conn[id].tokenJson = body,
                            !.conn[id].cred =
                                [token |-> body.token,
                                 model |-> modelOrDefault(body.model)]]
         IN  IF a.realtimeAttemptRef # id THEN End(PcClose(a, id), id)
             ELSE [a EXCEPT !.conn[id].dc = "connecting", !.rtcDataRef = id,
                            !.conn[id].pos =
                                IF a.conn[id].device = "" THEN "enum" ELSE "gum"]

\* AssistantShell.tsx:952-971: enumerateDevices settles (its failure is
\* caught) and getUserMedia is called
afterEnum(s, id) == [s EXCEPT !.conn[id].pos = "gum"]

\* AssistantShell.tsx:971-995: getUserMedia settles.  replaceTrack on a closed
\* connection rejects and the addTrack of the catch block throws
afterGum(s, id, ok) ==
    IF ~ok THEN Reject(s, id)
    ELSE LET a == [s EXCEPT !.conn[id].mic = "live", !.audioStreamRef = id]
         IN  IF a.conn[id].pc = "closed" THEN Reject(a, id)
             ELSE [a EXCEPT !.conn[id].pos = "replace"]

\* AssistantShell.tsx:991-1002 and 180-185: replaceTrack settles.  When it
\* rejects, the catch block calls addTrack (992-994), which throws on a closed
\* connection.  Otherwise stopMicMonitor, then startMicMeter up to its await
\* of ctx.resume().
afterReplace(s, id, ok) ==
    IF ~ok /\ s.conn[id].pc = "closed" THEN Reject(s, id)
    ELSE [stopMicMeter(stopMicMonitor(s)) EXCEPT !.conn[id].pos = "meter"]

\* AssistantShell.tsx:185-219 and 1004: ctx.resume() settles, the first
\* animation frame is requested and createOffer is called
afterMeter(s, id) ==
    LET a == startTick(s)
    IN  IF a.conn[id].pc = "closed" THEN Reject(a, id)
        ELSE [a EXCEPT !.conn[id].pos = "offer"]

\* AssistantShell.tsx:1004-1005: createOffer settles and setLocalDescription
\* is called, which rejects on a closed connection
afterCreateOffer(s, id, ok) ==
    IF ~ok \/ s.conn[id].pc = "closed" THEN Reject(s, id)
    ELSE [s EXCEPT !.conn[id].pos = "setLocal"]

\* AssistantShell.tsx:1005-1016: setLocalDescription settles; the staleness
\* test, then the signaling request
afterSetLocalDescription(s, id, ok) ==
    IF ~ok THEN Reject(s, id)
    ELSE IF Superseded(s, id) THEN End(s, id)
    ELSE [s EXCEPT !.conn[id].pos = "sdp", !.conn[id].sdpReq = s.conn[id].cred]

\* AssistantShell.tsx:1009-1028: the SDP fetch settles
afterSdpFetch(s, id, o) ==
    IF o = "throw" THEN Reject(s, id)
    ELSE IF Superseded(s, id) THEN End(s, id)
    ELSE IF o = "notok" THEN [s EXCEPT !.conn[id].pos = "sdpErrText"]
    ELSE [s EXCEPT !.conn[id].pos = "sdpText"]

\* AssistantShell.tsx:1021-1025
afterSdpErrText(s, id) ==
    End([s EXCEPT !.realtimeStatus = "error", !.error = "sdp"], id)

\* AssistantShell.tsx:1028-1031: sdpRes.text() settles; its rejection is thrown
\* out of startRealtimeSession
afterSdpText(s, id, ok) ==
    IF ~ok THEN Reject(s, id)
    ELSE IF Superseded(s, id) THEN End(s, id)
    ELSE [s EXCEPT !.conn[id].pos = "answer"]

\* AssistantShell.tsx:1080-1101, sendUpdate: dc.send of the session.update
\* message, which throws (and is caught) unless the channel is open
sendUpdate(s, id) ==
    IF s.conn[id].dc = "open" THEN [s EXCEPT !.conn[id].updates = @ + 1] ELSE s

\* AssistantShell.tsx:1030-1111: setRemoteDescription settles; sendUpdate is
\* called at once when the channel is open (1103-1104), else dc.onopen is
\* wrapped to call it (1105-1110)
afterAnswer(s, id, ok) ==
    IF ok THEN LET a == [s EXCEPT !.rtcStatsIntervalRef = TRUE, !.conn[id].pos = "done"]
               IN  IF a.conn[id].dc = "open" THEN sendUpdate(a, id) ELSE a
    ELSE IF s.conn[id].pc = "closed" THEN End(s, id)
    ELSE Reject(s, id)

At(id, p) == conn[id].pos = p

TokenFetchDone(id, o) == At(id, "token") /\ Defer(afterTokenFetch(St, id, o))
TokenTextDone(id) == At(id, "tokenText") /\ Defer(afterTokenText(St, id))
TokenJsonDone(id, body) == At(id, "tokenJson") /\ Defer(afterTokenJson(St, id, body))
EnumDone(id) == At(id, "enum") /\ Defer(afterEnum(St, id))
GumDone(id, ok) == At(id, "gum") /\ Defer(afterGum(St, id, ok))
\* whether a call pending on the connection resolves or rejects is the
\* browser's choice, also when the connection was closed meanwhile
ReplaceDone(id, ok) == At(id, "replace") /\ Defer(afterReplace(St, id, ok))
MeterDone(id) == At(id, "meter") /\ Defer(afterMeter(St, id))
CreateOfferDone(id, ok) == At(id, "offer") /\ Defer(afterCreateOffer(St, id, ok))
SetLocalDescriptionDone(id, ok) ==
    At(id, "setLocal") /\ Defer(afterSetLocalDescription(St, id, ok))
\* the signaling request is in flight until its fetch settles
SdpFetchDone(id, o) ==
    /\ At(id, "sdp")
    /\ Defer(afterSdpFetch([St EXCEPT !.conn[id].sdpReq = NoCred,
                                      !.conn[id].tokenJson = NoJson,
                                      !.conn[id].cred = NoCred], id, o))
SdpErrTextDone(id) == At(id, "sdpErrText") /\ Defer(afterSdpErrText(St, id))
SdpTextDone(id, ok) == At(id, "sdpText") /\ Defer(afterSdpText(St, id, ok))
AnswerDone(id, ok) ==
    /\ At(id, "answer")
    /\ ok => conn[id].pc = "open"
    /\ Defer(afterAnswer(St, id, ok))

(*---------------------------- peer connection events --------------------*)
\* AssistantShell.tsx:726-808, pc.ontrack: fired while the answer is applied
OnTrack(id) ==
    /\ At(id, "answer") /\ conn[id].pc = "open" /\ ~conn[id].track
    /\ Defer([St EXCEPT !.conn[id].track = TRUE, !.remoteAudioRafRef = TRUE])

\* AssistantShell.tsx:769-804: the tick the animation frame runs while
\* remoteAudioRafRef holds a request; it dispatches a sample and requests the
\* next frame
RemoteTick ==
    /\ remoteAudioRafRef
    /\ Defer([St EXCEPT !.lastAudioBy = "tick"])

\* AssistantShell.tsx:847-851, then the sendUpdate of the wrapper (1107-1110);
\* the channel opens only after the answer was applied
DcOnOpen(id) ==
    /\ conn[id].dc = "connecting" /\ conn[id].pc = "open" /\ At(id, "done")
    /\ Defer(sendUpdate([St EXCEPT !.conn[id].dc = "open", !.realtimeStatus = "connected"], id))

\* AssistantShell.tsx:852-856, the close event of the channel: it follows
\* close(), and the remote side or the transport may close a channel once the
\* answer is applied
DcOnClose(id) ==
    /\ \/ conn[id].dc = "closing"
       \/ conn[id].dc \in {"connecting", "open"} /\ conn[id].pc = "open" /\ At(id, "done")
    /\ Defer([St EXCEPT !.conn[id].dc = "closed", !.realtimeStatus = "error"])

\* AssistantShell.tsx:857-861; the transport failed, the channel closes
DcOnError(id) ==
    /\ conn[id].dc \in {"connecting", "open"} /\ conn[id].pc = "open" /\ At(id, "done")
    /\ Defer([St EXCEPT !.conn[id].dc = "closing", !.realtimeStatus = "error"])

\* AssistantShell.tsx:863-950, a transcription event at the instant t
DcOnMessage(id, u, t) ==
    /\ conn[id].dc = "open"
    /\ Defer([maybeHandleExitFromTranscript(rendered, St, u, t) EXCEPT
              !.heardExitAt = IF TranscriptHeardClose(u) THEN t ELSE @])

\* a step that starts a connect attempt gives it an id of at most m
SessionsWithin(m) ==
    (realtimeAttemptRef' # realtimeAttemptRef /\ realtimeStatus' = "connecting")
        => realtimeAttemptRef' <= m
\* a step that starts a connect attempt leaves at most k attempts in flight
InFlight(c) == {i \in AttemptIds : c[i].pos \notin {"none", "end", "done"}}
InFlightWithin(k) ==
    (realtimeAttemptRef' # realtimeAttemptRef /\ realtimeStatus' = "connecting")
        => Cardinality(InFlight(conn')) <= k

\* The recognizer and one session, with every failure of the network and of
\* the recognizer, while the level monitor stays disabled; the transcripts all
\* arrive at the first instant.
Next ==
    \/ MicClick /\ SessionsWithin(MaxAttempt)
    \/ KeyEscape /\ SessionsWithin(MaxAttempt)
    \/ PointerDown
    \/ CommitRender /\ SessionsWithin(MaxAttempt)
    \/ RecOnStart
    \/ \E u \in Utterances :
          RecOnResult(u, StartMs) /\ SessionsWithin(MaxAttempt)
    \/ \E e \in {"no-speech", "not-allowed"} : RecOnError(e)
    \/ RecOnEnd
    \/ RestartTimer
    \/ \E id \in AttemptIds, o \in {"ok", "notok", "throw"} : TokenFetchDone(id, o)
    \/ \E id \in AttemptIds : TokenTextDone(id)
    \/ \E id \in AttemptIds : TokenJsonDone(id, NoJson)
    \/ \E id \in AttemptIds, m \in TokenModels : TokenJsonDone(id, TokenBody(id, m))
    \/ \E id \in AttemptIds : EnumDone(id)
    \/ \E id \in AttemptIds, ok \in BOOLEAN : GumDone(id, ok)
    \/ \E id \in AttemptIds, ok \in BOOLEAN : ReplaceDone(id, ok)
    \/ \E id \in AttemptIds : MeterDone(id)
    \/ MicMeterTick
    \/ \E id \in AttemptIds, ok \in BOOLEAN : CreateOfferDone(id, ok)
    \/ \E id \in AttemptIds, ok \in BOOLEAN : SetLocalDescriptionDone(id, ok)
    \/ \E id \in AttemptIds, o \in {"ok", "notok", "throw"} : SdpFetchDone(id, o)
    \/ \E id \in AttemptIds : SdpErrTextDone(id)
    \/ \E id \in AttemptIds, ok \in BOOLEAN : SdpTextDone(id, ok)
    \/ \E id \in AttemptIds, ok \in BOOLEAN : AnswerDone(id, ok)
    \/ \E id \in AttemptIds : OnTrack(id)
    \/ \E id \in AttemptIds : DcOnOpen(id)
    \/ \E id \in AttemptIds : DcOnClose(id)
    \/ \E id \in AttemptIds : DcOnError(id)
    \/ \E id \in AttemptIds, u \in Utterances :
          DcOnMessage(id, u, StartMs) /\ SessionsWithin(MaxAttempt)

vars == <<tokenVars, shellVars, meterVars>>

Init == TokenInit /\ ShellInit /\ MeterInit

\* no microphone and no raw-microphone flag are saved in localStorage
FreshProfile == selectedMicDeviceId = "" /\ ~useRawMic

\* the client with the level monitor disabled
InitClient == Init /\ ~micMonitorEnabled /\ FreshProfile
Spec == InitClient /\ [][Next]_vars

\* The level monitor beside the recognizer: the monitor is switched, the
\* devices are enumerated, recognition may be refused; no microphone is saved
\* or chosen from the menu, and the session the button starts stays at its
\* credential fetch.
InitMonitor == Init /\ FreshProfile
NextMonitor ==
    \/ MicClick /\ SessionsWithin(MaxAttempt)
    \/ KeyEscape
    \/ PointerDown
    \/ ToggleMonitor
    \/ CommitRender
    \/ \E d \in {"", PreferredDevice} : DevicesLoaded(d)
    \/ DeviceChange
    \/ RecOnStart
    \/ RecOnError("not-allowed")
    \/ RecOnEnd
    \/ RestartTimer
    \/ \E ok \in BOOLEAN : MonitorGumDone(ok)
    \/ MonitorResume
    \/ MicMeterTick
SpecMonitor == InitMonitor /\ [][NextMonitor]_vars

\* The level monitor beside one session, in a browser without speech
\* recognition, where every request of the session succeeds (its channel may
\* still be closed by the remote side): the monitor is switched, the
\* microphone is selected and the devices are enumerated.
InitYield == Init /\ ~useRawMic /\ ~srSupported
NextYield ==
    \/ MicClick /\ SessionsWithin(MaxAttempt)
    \/ KeyEscape
    \/ ToggleMonitor
    \/ \E d \in Devices : SelectMic(d)
    \/ CommitRender
    \/ \E d \in {"", PreferredDevice} : DevicesLoaded(d)
    \/ DeviceChange
    \/ \E ok \in BOOLEAN : MonitorGumDone(ok)
    \/ MonitorResume
    \/ \E id \in AttemptIds : TokenFetchDone(id, "ok")
    \/ \E id \in AttemptIds : TokenJsonDone(id, TokenBody(id, cheapDefaultModel))
    \/ \E id \in AttemptIds : EnumDone(id)
    \/ \E id \in AttemptIds : GumDone(id, TRUE)
    \/ \E id \in AttemptIds : ReplaceDone(id, TRUE)
    \/ \E id \in AttemptIds : MeterDone(id)
    \/ MicMeterTick
    \/ \E id \in AttemptIds : CreateOfferDone(id, TRUE)
    \/ \E id \in AttemptIds : SetLocalDescriptionDone(id, TRUE)
    \/ \E id \in AttemptIds : SdpFetchDone(id, "ok")
    \/ \E id \in AttemptIds : SdpTextDone(id, TRUE)
    \/ \E id \in AttemptIds : AnswerDone(id, TRUE)
    \/ \E id \in AttemptIds : DcOnOpen(id)
    \/ \E id \in AttemptIds : DcOnClose(id)
SpecYield == InitYield /\ [][NextYield]_vars

\* The handover scenario: the assistant is driven by the button (from the
\* keyboard: no pointer gesture) and by voice
\* while the level monitor stays disabled, the recognizer delivers results
\* only while it runs, the transcripts all arrive at the first instant, and
\* every network step succeeds except the credential fetch, which may be
\* rejected.
InitHandover == Init /\ srSupported /\ ~micMonitorEnabled /\ FreshProfile
HandoverStep(m) ==
    \/ MicClick /\ SessionsWithin(m)
    \/ CommitRender
    \/ RecOnStart
    \/ \E t \in {StartMs} :
          rec = "running" /\ RecOnResult("hello", t) /\ SessionsWithin(m)
    \/ RecOnEnd
    \/ \E id \in AttemptIds, o \in {"ok", "throw"} : TokenFetchDone(id, o)
    \/ \E id \in AttemptIds, md \in TokenModels : TokenJsonDone(id, TokenBody(id, md))
    \/ \E id \in AttemptIds : EnumDone(id)
    \/ \E id \in AttemptIds : GumDone(id, TRUE)
    \/ \E id \in AttemptIds : ReplaceDone(id, TRUE)
    \/ \E id \in AttemptIds : MeterDone(id)
    \/ MicMeterTick
    \/ \E id \in AttemptIds : CreateOfferDone(id, TRUE)
    \/ \E id \in AttemptIds : SetLocalDescriptionDone(id, TRUE)
    \/ \E id \in AttemptIds : SdpFetchDone(id, "ok")
    \/ \E id \in AttemptIds : SdpTextDone(id, TRUE)
    \/ \E id \in AttemptIds : AnswerDone(id, TRUE)
    \/ \E id \in AttemptIds : DcOnOpen(id)
    \/ \E id \in AttemptIds, t \in {StartMs} :
          DcOnMessage(id, "bye", t) /\ SessionsWithin(m)
NextHandover == HandoverStep(MaxHandover)
SpecHandover == InitHandover /\ [][NextHandover]_vars

\* The assistant driven by the button (from the keyboard) and by voice while
\* the level monitor stays disabled and every request of a session succeeds
\* (its channel may still be closed by the remote side).
InitVoice == Init /\ ~micMonitorEnabled /\ FreshProfile
NextVoice ==
    \/ MicClick /\ SessionsWithin(MaxVoice)
             /\ InFlightWithin(MaxInFlight)
    \/ CommitRender
    \/ RecOnStart
    \/ \E u \in Utterances, t \in Later(St) :
          RecOnResult(u, t) /\ SessionsWithin(MaxVoice)
             /\ InFlightWithin(MaxInFlight)
    \/ RecOnEnd
    \/ RestartTimer
    \/ \E id \in AttemptIds : TokenFetchDone(id, "ok")
    \/ \E id \in AttemptIds : TokenJsonDone(id, TokenBody(id, cheapDefaultModel))
    \/ \E id \in AttemptIds : EnumDone(id)
    \/ \E id \in AttemptIds : GumDone(id, TRUE)
    \/ \E id \in AttemptIds : ReplaceDone(id, TRUE)
    \/ \E id \in AttemptIds : MeterDone(id)
    \/ MicMeterTick
    \/ \E id \in AttemptIds : CreateOfferDone(id, TRUE)
    \/ \E id \in AttemptIds : SetLocalDescriptionDone(id, TRUE)
    \/ \E id \in AttemptIds : SdpFetchDone(id, "ok")
    \/ \E id \in AttemptIds : SdpTextDone(id, TRUE)
    \/ \E id \in AttemptIds : AnswerDone(id, TRUE)
    \/ \E id \in AttemptIds : DcOnOpen(id)
    \/ \E id \in AttemptIds : DcOnClose(id)
    \/ \E id \in AttemptIds, u \in Utterances, t \in Later(St) :
          DcOnMessage(id, u, t) /\ SessionsWithin(MaxVoice)
             /\ InFlightWithin(MaxInFlight)
SpecVoice == InitVoice /\ [][NextVoice]_vars

\* The assistant driven by voice alone, in a browser with speech recognition:
\* sessions are started by wake phrases and closed by exit phrases, and every
\* request of a session succeeds.
InitSpoken == InitVoice /\ srSupported
NextSpoken ==
    \/ CommitRender
    \/ RecOnStart
    \/ \E u \in Utterances, t \in Later(St) :
          RecOnResult(u, t) /\ SessionsWithin(MaxSpoken)
             /\ InFlightWithin(MaxInFlight)
    \/ RecOnEnd
    \/ RestartTimer
    \/ \E id \in AttemptIds : TokenFetchDone(id, "ok")
    \/ \E id \in AttemptIds : TokenJsonDone(id, TokenBody(id, cheapDefaultModel))
    \/ \E id \in AttemptIds : EnumDone(id)
    \/ \E id \in AttemptIds : GumDone(id, TRUE)
    \/ \E id \in AttemptIds : ReplaceDone(id, TRUE)
    \/ \E id \in AttemptIds : MeterDone(id)
    \/ MicMeterTick
    \/ \E id \in AttemptIds : CreateOfferDone(id, TRUE)
    \/ \E id \in AttemptIds : SetLocalDescriptionDone(id, TRUE)
    \/ \E id \in AttemptIds : SdpFetchDone(id, "ok")
    \/ \E id \in AttemptIds : SdpTextDone(id, TRUE)
    \/ \E id \in AttemptIds : AnswerDone(id, TRUE)
    \/ \E id \in AttemptIds : DcOnOpen(id)
    \/ \E id \in AttemptIds : DcOnClose(id)
    \/ \E id \in AttemptIds, u \in Utterances, t \in Later(St) :
          DcOnMessage(id, u, t) /\ SessionsWithin(MaxSpoken)
             /\ InFlightWithin(MaxInFlight)
SpecSpoken == InitSpoken /\ [][NextSpoken]_vars

\* the endpoint alone
SpecToken == Init /\ [][TokenNext /\ UNCHANGED <<shellVars, meterVars>>]_vars
SpecTokenFair == SpecToken /\ WF_vars(TokenNext /\ UNCHANGED <<shellVars, meterVars>>)

\* The handover scenario with the remote track: the track of a connection
\* arrives while its answer is applied, and the meter ticks while scheduled.
NextTrack ==
    \/ HandoverStep(MaxTrack)
    \/ \E id \in AttemptIds : OnTrack(id)
    \/ RemoteTick
SpecTrack == InitHandover /\ [][NextTrack]_vars

\* the remote audio meter alone
SpecMeter == Init /\ [][MeterNext /\ UNCHANGED <<tokenVars, shellVars>>]_vars

(***************************************************************************)
(* Properties of the credential endpoint                                   *)
(***************************************************************************)
\* the models of the requests issued, followed by the model POST now holds
ModelHistory == [i \in 1..(Len(upstreamLog) + 1) |->
                    IF i <= Len(upstreamLog) THEN upstreamLog[i].model ELSE model]
RequestsWith(m) == {i \in 1..Len(upstreamLog) : upstreamLog[i].model = m}
\* a 4xx whose body matches the unsupported-model pattern
UnsupportedAnswer(o) == o.kind = "resp" /\ o.status >= 400 /\ o.status < 500 /\ o.unsupported
AllAnswers(P(_)) == Len(upstreamLog) >= 1 /\ \A i \in 1..Len(upstreamLog) : P(upstreamLog[i].outcome)
UnsupportedNot429(o) == UnsupportedAnswer(o) /\ o.status # 429
ErrorResponse == tkResponse.kind = "json" /\ tkResponse.status >= 400 /\ ~tkResponse.token
SwitchedAtMostOnce ==
    tkPc \notin {"idle"} /\ model # "" =>
        \A i \in 1..Len(upstreamLog) :
            ModelHistory[i] # ModelHistory[i + 1] =>
                ModelHistory[i] = cheapDefaultModel /\ ModelHistory[i + 1] = fallbackModel

\* C4 (as stated): the model is switched at most once, only from the cheap
\* default model to the fallback model and never back; when every upstream
\* answer is an unsupported-model 4xx, exactly one request carries the
\* fallback model and the endpoint answers with an error.
C4_Original ==
    /\ SwitchedAtMostOnce
    /\ (tkPc = "done" /\ AllAnswers(UnsupportedAnswer)) =>
           (Cardinality(RequestsWith(fallbackModel)) = 1 /\ ErrorResponse)

\* C4 (amended): the same, for a request that names the cheap default model,
\* the fallback model or no model, and an upstream whose unsupported-model
\* answers are not 429: a 429 answer to the fallback model is retried, so a
\* second fallback request follows it, and a request that names any other
\* model is never switched, so no request carries the fallback model.
C4_FallbackSingleShot ==
    /\ SwitchedAtMostOnce
    /\ (tkPc = "done" /\ AllAnswers(UnsupportedNot429)) =>
           /\ ErrorResponse
           /\ Cardinality(RequestsWith(fallbackModel)) =
                  IF upstreamLog[1].model \in {cheapDefaultModel, fallbackModel}
                  THEN 1 ELSE 0

\* both cases: the default model was refused and the fallback model after it;
\* another model was refused and the endpoint answered after that one request
C4_Witness ==
    /\ tkPc = "done"
    /\ AllAnswers(UnsupportedNot429)
    /\ \/ /\ Len(upstreamLog) = 2
          /\ upstreamLog[1].model = cheapDefaultModel
          /\ upstreamLog[2].model = fallbackModel
       \/ /\ Len(upstreamLog) = 1
          /\ upstreamLog[1].model = otherModel

\* C5: one invocation issues at most 3 upstream session-create requests,
\* whatever mix of network failures, 429/5xx answers and fallback it meets,
\* and it always ends with a response.
C5_BoundedAndTerminates ==
    /\ [](Len(upstreamLog) <= 3)
    /\ <>(tkPc = "done" /\ tkResponse # NoRes)

C5_Witness ==
    /\ tkPc = "done"
    /\ Len(upstreamLog) = 3
    /\ upstreamLog[1].outcome = Throw
    /\ UnsupportedAnswer(upstreamLog[2].outcome)
    /\ upstreamLog[3].model = fallbackModel
    /\ upstreamLog[3].outcome.kind = "resp" /\ upstreamLog[3].outcome.status = 503

\* C6: whenever a request for the cheap default model is answered with an
\* unsupported-model 4xx, on whichever attempt, a request with the fallback
\* model follows before the endpoint responds, and when that request
\* succeeds the response carries a token.
C6_FallbackAlwaysIssued ==
    tkPc = "done" =>
        \A i \in 1..Len(upstreamLog) :
            (upstreamLog[i].model = cheapDefaultModel /\ UnsupportedAnswer(upstreamLog[i].outcome)) =>
                \E j \in (i + 1)..Len(upstreamLog) :
                    /\ upstreamLog[j].model = fallbackModel
                    /\ (ResOk(upstreamLog[j].outcome) /\ upstreamLog[j].outcome.secret
                            => tkResponse.token)

(***************************************************************************)
(* Properties of the assistant shell                                       *)
(***************************************************************************)
\* the recognizer has been started and has not been stopped
RecognizerHoldsMic == rec \in {"starting", "running"}
\* a stream the monitor's getUserMedia returned has live tracks
MonitorHoldsMic == micMonitorStreamRef \/ monitorLeak
\* a stream the getUserMedia of a connect attempt returned has live tracks
TransportHoldsMic == \E id \in AttemptIds : conn[id].mic = "live"

\* C1: in every reachable state at most one of the wake-word recognizer, the
\* level monitor and the transport session holds the microphone: a started
\* recognizer, a live monitor stream and a live transport stream exclude one
\* another.
C1_OneMicrophoneHolder ==
    /\ ~(RecognizerHoldsMic /\ MonitorHoldsMic)
    /\ ~(RecognizerHoldsMic /\ TransportHoldsMic)
    /\ ~(MonitorHoldsMic /\ TransportHoldsMic)

\* a step of the connect attempt id, after one of its awaits
StepOf(id) == conn[id].pos # "none" /\ conn'[id].pos # conn[id].pos

\* C2: once closeAssistant or a newer startRealtimeSession has changed the
\* current attempt id, no remaining step of the older attempt changes the
\* session status or the error text, and none stores or keeps a live
\* microphone stream or an open peer connection.
C2_StaleAttemptInert ==
    [][\A id \in AttemptIds :
          (StepOf(id) /\ realtimeAttemptRef # id) =>
              /\ realtimeStatus' = realtimeStatus
              /\ error' = error
              /\ conn'[id].mic # "live"
              /\ conn'[id].pc # "open"]_vars

\* C3: after closeAssistant the status is idle and stays idle until the next
\* startRealtimeSession: the only step that takes it out of idle starts a
\* connect attempt.
C3_IdleUntilNextStart ==
    [][(realtimeAttemptRef > 0 /\ realtimeStatus = "idle" /\ realtimeStatus' # "idle") =>
          (realtimeStatus' = "connecting" /\ realtimeAttemptRef' = realtimeAttemptRef + 1)]_vars

\* the step opens the assistant or starts a connect attempt
OpensOrStarts ==
    \/ ~open /\ open'
    \/ realtimeAttemptRef' = realtimeAttemptRef + 1 /\ realtimeStatus' = "connecting"
\* the step is a call of closeAssistant
Closes == realtimeAttemptRef' = realtimeAttemptRef + 1 /\ realtimeStatus' = "idle"

\* C7 (as stated): of two wake phrases the recognizer delivers less than
\* 8000 ms apart, the second neither opens the assistant nor starts a session.
C7_Original ==
    [][~OpensOrStarts \/
          ~\E u \in Utterances, t \in Instants :
              /\ HeardWake(u)
              /\ heardWakeAt > 0 /\ t - heardWakeAt < WAKE_COOLDOWN_MS
              /\ RecOnResult(u, t)]_vars

\* C7 (amended): a wake phrase the recognizer delivers less than 8000 ms
\* after the last wake phrase it accepted neither opens the assistant nor
\* starts a session, and leaves the time of the last accepted one unchanged.
C7_WakeCooldown ==
    [][(~OpensOrStarts /\ lastWakeTriggerAtRef' = lastWakeTriggerAtRef) \/
          ~\E u \in Utterances, t \in Instants :
              /\ HeardWake(u)
              /\ t - lastWakeTriggerAtRef < WAKE_COOLDOWN_MS
              /\ RecOnResult(u, t)]_vars

\* One session was started by a wake phrase and closed by an exit phrase, and
\* then, with the assistant closed, a wake phrase arrived inside the cooldown
\* of the first: the assistant is still closed.
C7_Witness ==
    /\ lastWakeTriggerAtRef > 0
    /\ heardWakeAt > lastWakeTriggerAtRef
    /\ heardWakeAt - lastWakeTriggerAtRef < WAKE_COOLDOWN_MS
    /\ lastExitTriggerAtRef > 0 /\ lastExitTriggerAtRef < heardWakeAt
    /\ realtimeAttemptRef = 2
    /\ ~open /\ realtimeStatus = "idle"

\* the assistant is closed: in the state, in the last render and in openRef
Shut == ~open /\ ~rendered.open /\ ~openRef
\* the step delivers an exit phrase, from the recognizer or from the
\* transport's transcription
ExitPhraseStep ==
    \E u \in Utterances, t \in Instants :
        \/ HeardClose(u) /\ RecOnResult(u, t)
        \/ TranscriptHeardClose(u) /\ \E id \in AttemptIds : DcOnMessage(id, u, t)

\* C8: closeAssistant is invoked because of an exit phrase only while the
\* assistant is open, from the recognizer and from the transport's
\* transcription alike: an exit phrase delivered while it is closed neither
\* moves the exit time stamp nor calls closeAssistant.
C8_ExitOnlyWhileOpen ==
    [][(Shut /\ ExitPhraseStep) =>
          (lastExitTriggerAtRef' = lastExitTriggerAtRef /\ ~Closes)]_vars

\* C9: an exit phrase that arrives less than 2500 ms after an accepted exit
\* trigger, from the recognizer or from the transport's transcription, does
\* not call closeAssistant and leaves the time of the trigger unchanged.
C9_ExitCooldown ==
    [][(~Closes /\ lastExitTriggerAtRef' = lastExitTriggerAtRef) \/
          ~\E u \in Utterances, t \in Instants :
              /\ HeardClose(u)
              /\ t - lastExitTriggerAtRef < EXIT_COOLDOWN_MS
              /\ (RecOnResult(u, t) \/ \E id \in AttemptIds : DcOnMessage(id, u, t))]_vars

\* an exit phrase arrived inside the cooldown of an accepted one while the
\* assistant was open again, and it is still open
C9_Witness ==
    /\ lastExitTriggerAtRef > 0
    /\ heardExitAt > lastExitTriggerAtRef
    /\ heardExitAt - lastExitTriggerAtRef < EXIT_COOLDOWN_MS
    /\ open /\ openRef

\* C10: closeAssistant on a session that is idle and closed changes nothing:
\* in such a state, once it is rendered, the attempt counter moves only when
\* a session is started.
C10_CloseIdleIsNoOp ==
    [][(/\ Shut /\ realtimeStatus = "idle" /\ rendered.realtimeStatus = "idle"
        /\ realtimeStatus' = "idle") =>
          realtimeAttemptRef' = realtimeAttemptRef]_vars

\* C11: when the recognizer reports an error other than no-speech, the wake
\* status becomes error and the should-run flag is cleared, so that the end
\* event that follows schedules no restart.
C11_ErrorClearsShouldRun ==
    [][RecOnError("not-allowed") =>
          (wakeStatus' = "error" /\ ~speechRecShouldRunRef')]_vars

(***************************************************************************)
(* The wake listener around one session                                    *)
(***************************************************************************)
\* The browser's events of the recognizer and of one connect attempt whose
\* network steps all succeed.  The browser delivers an event that stays
\* pending, so the steps of ListenEvents are taken fairly; what the user does
\* (the mic button, an exit phrase) is not.
ListenEvents ==
    \/ CommitRender
    \/ RecOnStart
    \/ RecOnEnd
    \/ RestartTimer
    \/ \E id \in AttemptIds : TokenFetchDone(id, "ok")
    \/ \E id \in AttemptIds : TokenJsonDone(id, TokenBody(id, cheapDefaultModel))
    \/ \E id \in AttemptIds : EnumDone(id)
    \/ \E id \in AttemptIds : GumDone(id, TRUE)
    \/ \E id \in AttemptIds : ReplaceDone(id, TRUE)
    \/ \E id \in AttemptIds : MeterDone(id)
    \/ MicMeterTick
    \/ \E id \in AttemptIds : CreateOfferDone(id, TRUE)
    \/ \E id \in AttemptIds : SetLocalDescriptionDone(id, TRUE)
    \/ \E id \in AttemptIds : SdpFetchDone(id, "ok")
    \/ \E id \in AttemptIds : SdpTextDone(id, TRUE)
    \/ \E id \in AttemptIds : AnswerDone(id, TRUE)
    \/ \E id \in AttemptIds : DcOnOpen(id)
    \/ \E id \in AttemptIds : DcOnClose(id)
InitListen == Init /\ srSupported /\ ~micMonitorEnabled
NextListen ==
    \/ MicClick /\ SessionsWithin(MaxAttempt)
    \/ RecOnResult("bye", StartMs)
    \/ ListenEvents
SpecListen == InitListen /\ [][NextListen]_vars
SpecListenFair == SpecListen /\ WF_vars(ListenEvents)

\* the assistant was opened and is closed again
ClosedAgain == ~open /\ realtimeAttemptRef >= 2
\* the wake listener listens: the recognizer runs and is meant to run
ListenerUp == wakeStatus = "listening" /\ rec = "running" /\ speechRecShouldRunRef

\* C12: while wake word stays enabled, once the assistant has been opened and
\* closed again, by an exit phrase or by the button, the wake listener
\* eventually listens again with the recognizer running and should-run set,
\* with no further action of the user.
C12_ListenerRecovers == ClosedAgain ~> ListenerUp

\* C13: the end event of the recognizer starts nothing itself; it schedules
\* one timer when should-run is set and none otherwise, and the timer starts
\* the recognizer only if, when it fires, should-run is still set and the
\* recognizer is not marked running; one timer gives at most one start.
C13_DelayedSingleRestart ==
    [][(rec' = rec /\ restartTimers' = restartTimers) \/
          (/\ RecOnEnd =>
                 /\ rec' = "inactive"
                 /\ restartTimers' = restartTimers + (IF speechRecShouldRunRef THEN 1 ELSE 0)
           /\ (RestartTimer /\ rec' # rec) =>
                 /\ speechRecShouldRunRef /\ ~speechRecIsRunningRef
                 /\ rec = "inactive" /\ rec' = "starting"
                 /\ restartTimers' = restartTimers - 1)]_vars

\* the recognizer ended while listening and its timer has started it again:
\* only startWakeWord, which sets the status to starting, starts it otherwise
C13_Witness ==
    /\ rec = "starting" /\ wakeStatus = "listening"
    /\ speechRecShouldRunRef /\ ~speechRecIsRunningRef
    /\ restartTimers = 0


\* C14: a "no-speech" recognizer error that arrives while the wake status is
\* listening leaves the status listening and the last-error text empty, and
\* the error handler itself starts nothing and arms no restart timer: the only
\* restart is the delayed one the following termination arms (C13).
C14_NoSpeechIsBenign ==
    [][(RecOnError("no-speech") /\ wakeStatus = "listening") =>
          /\ wakeStatus' = "listening"
          /\ wakeLastError' = ""
          /\ restartTimers' = restartTimers
          /\ rec' \in {"stopping", "ending"}]_vars

\* the recognizer has been stopped by a no-speech error taken while listening:
\* still listening, the run flag set, no timer armed before the termination
C14_Witness ==
    /\ wakeStatus = "listening" /\ wakeLastError = ""
    /\ rec = "stopping" /\ speechRecIsRunningRef /\ speechRecShouldRunRef
    /\ restartTimers = 0 /\ ~open


\* C15: while the assistant is closed and the wake listener is starting or
\* listening, the level monitor holds no microphone stream.
C15_MonitorYieldsToListener ==
    (~open /\ wakeStatus \in {"starting", "listening"}) => ~MonitorHoldsMic


\* C16: the level monitor holds no live microphone stream while the session
\* status is connecting or connected.
C16_MonitorYieldsToSession ==
    realtimeStatus \in {"connecting", "connected"} => ~MonitorHoldsMic


\* a holder that blocks the level monitor is active: the assistant is open or
\* its session is connecting or connected, or the wake listener is starting
\* or listening
MonitorBlocked ==
    \/ open \/ realtimeStatus \in {"connecting", "connected"}
    \/ wakeWordEnabled /\ wakeStatus \in {"starting", "listening"}

\* C17: the level monitor makes no attempt to acquire the microphone while a
\* blocking holder is active: a step that issues a getUserMedia call of the
\* monitor ends with no blocking holder active (the monitor acquires only
\* after the release).
C17_MonitorWaitsForRelease ==
    [][monitorGum' > monitorGum => ~MonitorBlocked']_vars


\* C18: the session status changes only from idle to connecting, from
\* connecting to connected or to error, from connected to error, and from
\* any status to idle.
C18_StatusTransitions ==
    [][\/ realtimeStatus' = realtimeStatus
       \/ realtimeStatus' = "idle"
       \/ <<realtimeStatus, realtimeStatus'>> \in
             {<<"idle", "connecting">>, <<"connecting", "connected">>,
              <<"connecting", "error">>, <<"connected", "error">>}]_vars


\* an awaited step of the connect attempt id fails by throwing
StepFails(id) ==
    \/ TokenFetchDone(id, "throw")
    \/ TokenJsonDone(id, NoJson)
    \/ GumDone(id, FALSE)
    \/ CreateOfferDone(id, FALSE)
    \/ SetLocalDescriptionDone(id, FALSE)
    \/ SdpFetchDone(id, "throw")
    \/ SdpTextDone(id, FALSE)
    \/ AnswerDone(id, FALSE)

\* C19: when an awaited step of the current connect attempt fails, the session
\* status is error after the step, whether the attempt was started by the
\* button or by a wake phrase.
C19_FailureSetsError ==
    [][\/ realtimeStatus' = "error"
       \/ ~\E id \in AttemptIds :
             /\ realtimeAttemptRef = id /\ realtimeStatus = "connecting"
             /\ StepFails(id)]_vars


\* the i-th upstream request was answered with a non-OK response
NonOkAt(i) ==
    upstreamLog[i].outcome.kind = "resp" /\ ~ResOk(upstreamLog[i].outcome)
\* the i-th request was repeated: the next request carries the same model
RetriedAt(i) ==
    i < Len(upstreamLog) /\ upstreamLog[i + 1].model = upstreamLog[i].model
\* the i-th request was the last one, and the response carries its status
EndsAt(i) ==
    /\ i = Len(upstreamLog)
    /\ tkPc \in {"after", "done"}
    /\ tkPc = "done" => tkResponse.status = upstreamLog[i].outcome.status
\* status 429 or at least 500
TransientStatus(o) == o.status = 429 \/ o.status >= 500
\* a 4xx answer that does not switch the model: its body does not match the
\* unsupported-model pattern, or the request carried another model than the
\* cheap default
Plain4xx(i) ==
    /\ upstreamLog[i].outcome.status >= 400 /\ upstreamLog[i].outcome.status < 500
    /\ ~(upstreamLog[i].outcome.unsupported /\ upstreamLog[i].model = cheapDefaultModel)

\* C20 (as stated): a non-OK upstream response is retried only if its status
\* is 429 or at least 500 and attempts remain; every 4xx that is not
\* fallback-eligible, the unsupported-model 4xx for the fallback model
\* included, ends the request with that status and no further request.
C20_Original ==
    \A i \in 1..Len(upstreamLog) :
        NonOkAt(i) =>
            /\ RetriedAt(i) => (TransientStatus(upstreamLog[i].outcome) /\ i < maxAttempts)
            /\ Plain4xx(i) => EndsAt(i)

\* C20 (amended): the same, for the 4xx statuses other than 429: a 429 is
\* retried while attempts remain, also when its body reports an unsupported
\* model for the fallback model.
C20_RetryOnlyTransient ==
    \A i \in 1..Len(upstreamLog) :
        NonOkAt(i) =>
            /\ RetriedAt(i) => (TransientStatus(upstreamLog[i].outcome) /\ i < maxAttempts)
            /\ (Plain4xx(i) /\ upstreamLog[i].outcome.status # 429) => EndsAt(i)

\* the cheap model was refused, then the fallback model was refused with an
\* unsupported-model 404: the endpoint answered 404 after two requests
C20_Witness ==
    /\ tkPc = "done"
    /\ Len(upstreamLog) = 2
    /\ upstreamLog[1].model = cheapDefaultModel
    /\ upstreamLog[2].model = fallbackModel
    /\ upstreamLog[2].outcome = Resp(404, TRUE, FALSE, FALSE)
    /\ tkResponse.status = 404


\* the connect attempts whose peer connection, data channel or microphone
\* stream is live
LivePcs == {id \in AttemptIds : conn[id].pc = "open"}
LiveDcs == {id \in AttemptIds : conn[id].dc \in {"connecting", "open"}}
LiveMics == {id \in AttemptIds : conn[id].mic = "live"}

\* C21: at any instant at most one peer connection is not closed, at most one
\* data channel is not closed, and at most one transport microphone stream
\* is live.
C21_OneLiveTransport ==
    /\ Cardinality(LivePcs) <= 1
    /\ Cardinality(LiveDcs) <= 1
    /\ Cardinality(LiveMics) <= 1


\* C22: a session.update message is sent only for the current connect
\* attempt, once, in a step that leaves its data channel open and the status
\* connected; and every attempt whose channel is open has sent exactly one.
C22_OneUpdatePerSession ==
    /\ [](\A id \in AttemptIds : conn[id].dc = "open" => conn[id].updates = 1)
    /\ [][\A id \in AttemptIds :
             conn'[id].updates # conn[id].updates =>
                /\ conn[id].updates = 0 /\ conn'[id].updates = 1
                /\ conn'[id].dc = "open" /\ realtimeStatus' = "connected"
                /\ realtimeAttemptRef = id]_vars


\* C23: at most one recognizer instance is constructed: once the reference
\* holds an instance it is never cleared, and every later startWakeWord
\* reuses it.
C23_SingleRecognizer ==
    /\ recInstances <= 1
    /\ speechRecRef <=> recInstances = 1

\* the one instance has been stopped by an open, ended, and been started
\* again by the effect that follows the close
C23_Witness ==
    /\ recInstances = 1 /\ speechRecRef
    /\ realtimeAttemptRef >= 2 /\ ~open
    /\ rec = "starting" /\ wakeStatus = "starting"


\* C24: the two time stamps are independent.  No step moves both; an exit
\* phrase the recognizer delivers while the assistant is open, 2500 ms or
\* more after the last exit trigger, is accepted whatever the wake time
\* stamp; a wake phrase not taken as an exit and delivered 8000 ms or more
\* after the last wake trigger is accepted whatever the exit time stamp
\* (accepted: the time stamp of its kind becomes the instant it was heard).
C24_IndependentStamps ==
    [][/\ lastWakeTriggerAtRef' = lastWakeTriggerAtRef
          \/ lastExitTriggerAtRef' = lastExitTriggerAtRef
       /\ \/ lastExitTriggerAtRef' = heardExitAt'
          \/ ~\E t \in Instants :
                /\ heardExitAt' = t /\ openRef
                /\ t - lastExitTriggerAtRef >= EXIT_COOLDOWN_MS
                /\ \E u \in Utterances : HeardClose(u) /\ RecOnResult(u, t)
       /\ \/ lastWakeTriggerAtRef' = heardWakeAt'
          \/ ~\E t \in Instants :
                /\ heardWakeAt' = t
                /\ t - lastWakeTriggerAtRef >= WAKE_COOLDOWN_MS
                /\ \E u \in Utterances :
                      /\ HeardWake(u) /\ ~(HeardClose(u) /\ openRef)
                      /\ RecOnResult(u, t)]_vars

\* a session started by a wake phrase was closed by an exit phrase heard less
\* than 8000 ms after the wake trigger
C24_Witness ==
    /\ lastWakeTriggerAtRef > 0
    /\ lastExitTriggerAtRef > lastWakeTriggerAtRef
    /\ lastExitTriggerAtRef - lastWakeTriggerAtRef < WAKE_COOLDOWN_MS
    /\ conn[1].via = "wake" /\ realtimeAttemptRef = 2
    /\ ~open /\ realtimeStatus = "idle"


\* the product name or its short alias is a word of the text, as it was heard
\* (trimmed, in lower case) or after the substitutions for mis-hearings
SaysName(u) ==
    \E m \in {"eeknova", "nova"} :
        HasWord(ToLowerCase(Trim(u)), m) \/ HasWord(Norm2(u), m)
\* the wake rule as stated: the word hello, or one of hi and hey together with
\* the name
SaysWakeText(u) ==
    LET n == Norm2(u)
    IN  \/ HasWord(n, "hello")
        \/ /\ \E g \in {"hi", "hey"} : HasWord(n, g)
           /\ SaysName(u)
\* an exit word in the normalized text
SaysExitText(u) == \E x \in {"bye", "by", "exit"} : HasWord(Norm2(u), x)
\* the same for each text of Utterances
SaidWake == {u \in Utterances : SaysWakeText(u)}
SaidExit == {u \in Utterances : SaysExitText(u)}
SaysWake(u) == u \in SaidWake
SaysExit(u) == u \in SaidExit

\* C25: a transcript of the recognizer triggers wake (the wake time stamp
\* becomes the instant it was heard, and the assistant is opened unless
\* openRef holds already) exactly when it says a wake phrase, 8000 ms or more
\* have passed since the last wake trigger, and it was not taken as an exit;
\* a transcript that says both an exit word and a wake phrase while the
\* assistant is open leaves the wake time stamp untouched.
C25_WakeRule ==
    [][/\ \/ lastWakeTriggerAtRef' = lastWakeTriggerAtRef
          \/ \E t \in Instants :
                /\ lastWakeTriggerAtRef' = t
                /\ t - lastWakeTriggerAtRef >= WAKE_COOLDOWN_MS
                /\ \E u \in Utterances :
                      /\ SaysWake(u) /\ ~(SaysExit(u) /\ openRef)
                      /\ RecOnResult(u, t)
       /\ \A u \in Utterances, t \in Instants :
             (/\ SaysWake(u) /\ ~(SaysExit(u) /\ openRef)
              /\ t - lastWakeTriggerAtRef >= WAKE_COOLDOWN_MS
              /\ RecOnResult(u, t))
                 => lastWakeTriggerAtRef' = t /\ (openRef \/ open')
       /\ \/ lastWakeTriggerAtRef' = lastWakeTriggerAtRef
          \/ ~(openRef /\ \E u \in Utterances, t \in Instants :
                  SaysWake(u) /\ SaysExit(u) /\ RecOnResult(u, t))]_vars


\* C26: every sample the remote meter publishes has a level within [0, 1]
\* (0..10000 in the unit of the model), and its isSpeaking is true exactly
\* when some frame measured less than 180 ms before it, the frame of the
\* sample included, had a level above the threshold.
C26_SpeakingHangover ==
    audioEvent.by = "tick" =>
        /\ audioEvent.level >= 0 /\ audioEvent.level <= 10000
        /\ audioEvent.isSpeaking <=>
              \E i \in 1..Len(frames) :
                 frames[i].level > 450 /\ meterNow - frames[i].at < 180

\* a loud frame, then two quiet ones 16 ms and 180 ms after it: speaking
\* stayed true for the first and is false for the second
C26_Witness ==
    /\ Len(frames) = 3
    /\ frames[1].level > 450 /\ frames[2].level <= 450 /\ frames[3].level <= 450
    /\ frames[2].at - frames[1].at = 16
    /\ frames[3].at - frames[1].at = 180
    /\ audioEvent.by = "tick" /\ ~audioEvent.isSpeaking

\* C27: every audio-level event published carries a numeric level, a boolean
\* isSpeaking and a source that is "local" or "remote".
C27_EventShape ==
    audioEvent # NoEvent =>
        /\ audioEvent.level \in 0..10000
        /\ audioEvent.isSpeaking \in BOOLEAN
        /\ audioEvent.source \in {"local", "remote"}


\* the steps of one connect attempt, in the order the claim gives them: the
\* credential request (token, then the reading of its body), the microphone
\* (enum when no device is selected, gum, replace, meter), the offer (offer,
\* setLocal), the signaling request (sdp, then the reading of its body), the
\* answer, and done, after which the channel may open
ConnectOrder ==
    {<<"none", "token">>, <<"token", "tokenText">>, <<"token", "tokenJson">>,
     <<"tokenJson", "enum">>, <<"enum", "gum">>,
     <<"tokenJson", "gum">>, <<"gum", "replace">>, <<"replace", "meter">>,
     <<"meter", "offer">>, <<"offer", "setLocal">>,
     <<"setLocal", "sdp">>, <<"sdp", "sdpErrText">>, <<"sdp", "sdpText">>,
     <<"sdpText", "answer">>, <<"answer", "done">>}
        \cup {<<p, "end">> : p \in {"token", "tokenText", "tokenJson", "gum", "replace",
                                    "meter", "offer", "setLocal", "sdp", "sdpErrText",
                                    "sdpText",
                                    "answer"}}

\* C28: within one connect attempt the steps happen in the order credential
\* request, microphone acquisition, offer, signaling request, answer applied,
\* Connected; an attempt whose credential request failed (a rejected fetch, a
\* non-2xx response or an unreadable body) ends without acquiring the
\* microphone and without a signaling request; the signaling request in
\* flight carries the token and the model of the body the credential endpoint
\* returned to that same attempt, whichever model that is (the model of line
\* 692 when the body names none).
C28_ConnectOrder ==
    /\ [](\A id \in AttemptIds :
            /\ conn[id].pos = "sdp" =>
                  /\ conn[id].tokenJson # NoJson
                  /\ conn[id].tokenJson.token = id
                  /\ conn[id].sdpReq.token = conn[id].tokenJson.token
                  /\ conn[id].tokenJson.model # "" =>
                        conn[id].sdpReq.model = conn[id].tokenJson.model
                  /\ conn[id].tokenJson.model = "" =>
                        conn[id].sdpReq.model = "gpt-4o-realtime-preview"
            /\ conn[id].pos # "sdp" => conn[id].sdpReq = NoCred)
    /\ [][\A id \in AttemptIds :
            /\ conn'[id].pos # conn[id].pos =>
                  <<conn[id].pos, conn'[id].pos>> \in ConnectOrder
            /\ (conn[id].mic = "none" /\ conn'[id].mic # "none") =>
                  conn[id].pos = "gum"
            /\ (conn[id].dc # "open" /\ conn'[id].dc = "open") =>
                  /\ conn[id].pos = "done" /\ conn[id].mic # "none"
                  /\ realtimeStatus' = "connected"
            /\ (realtimeStatus # "connected" /\ realtimeStatus' = "connected") =>
                  \E i \in AttemptIds : conn[i].pos = "done" /\ conn'[i].dc = "open"
            /\ \/ conn'[id].pos # "tokenJson"
               \/ ~\E o \in {"notok", "throw"} : TokenFetchDone(id, o)
            /\ \/ conn'[id].pos # "gum"
               \/ ~TokenJsonDone(id, NoJson)]_vars

\* one attempt ended at a refused credential request with neither peer
\* connection nor microphone; a later one was answered with the fallback model,
\* acquired its microphone, and its signaling request is in flight
C28_Witness ==
    \E i, j \in AttemptIds :
        /\ i < j
        /\ conn[i].pos = "end" /\ conn[i].pc = "none" /\ conn[i].mic = "none"
        /\ conn[j].pos = "sdp" /\ conn[j].mic = "live"
        /\ conn[j].tokenJson = TokenBody(j, fallbackModel)
        /\ conn[j].sdpReq = [token |-> j, model |-> fallbackModel]
        /\ realtimeStatus = "connecting" /\ realtimeAttemptRef = j


\* C29: the attempt counter never decreases; a startRealtimeSession that
\* passes its status guard (the status of the render it was created in is
\* neither connecting nor connected) and a closeAssistant each increase it,
\* so a connect attempt starts under an id that is new and greater than every
\* earlier one, and an id below the current one never becomes current again.
C29_AttemptCounter ==
    /\ [](closeAssistant(rendered, St).realtimeAttemptRef > realtimeAttemptRef)
    /\ [][/\ realtimeAttemptRef' >= realtimeAttemptRef
          /\ \A id \in AttemptIds :
                /\ (conn[id].pos = "none" /\ conn'[id].pos # "none") =>
                      /\ id = realtimeAttemptRef'
                      /\ id > realtimeAttemptRef
                /\ (conn[id].pos # "none" /\ conn'[id].pos # conn[id].pos) =>
                      conn'[id].pos \notin {"none", "token"}
                /\ id < realtimeAttemptRef => realtimeAttemptRef' # id
          /\ \/ realtimeAttemptRef' > realtimeAttemptRef
             \/ ~(/\ \/ rendered.open
                     \/ rendered.realtimeStatus \notin {"connecting", "connected"}
                  /\ MicClick)
          /\ lastExitTriggerAtRef' # lastExitTriggerAtRef =>
                realtimeAttemptRef' > realtimeAttemptRef
          /\ (/\ lastWakeTriggerAtRef' # lastWakeTriggerAtRef
              /\ rendered.realtimeStatus \notin {"connecting", "connected"}) =>
                realtimeAttemptRef' > realtimeAttemptRef]_vars

\* attempts 1 and 3 were started, the id 2 between them was taken by a
\* closeAssistant, and attempt 3 is the current one
C29_Witness ==
    /\ conn[1].pos # "none" /\ conn[2].pos = "none" /\ conn[3].pos = "token"
    /\ realtimeAttemptRef = 3


\* the last session-create request the endpoint issued
LastUpstream == upstreamLog[Len(upstreamLog)]
\* an earlier request got the refusal that makes the endpoint fall back
FellBack ==
    \E i \in 1..Len(upstreamLog) :
        /\ upstreamLog[i].model = cheapDefaultModel
        /\ upstreamLog[i].outcome.kind = "resp"
        /\ upstreamLog[i].outcome.status \in 400..499
        /\ upstreamLog[i].outcome.unsupported

\* C30: a success response of the credential endpoint carries a token and
\* the model of the upstream request that succeeded, which is the fallback
\* model after a fallback; when the upstream succeeded without a client
\* secret the response is an error and carries no token.
C30_SuccessResponse ==
    tkResponse # NoRes =>
        /\ (tkResponse.status \in 200..299) =>
              /\ tkResponse.token
              /\ Len(upstreamLog) > 0
              /\ LastUpstream.outcome.kind = "resp"
              /\ LastUpstream.outcome.status \in 200..299
              /\ LastUpstream.outcome.secret
              /\ tkResponse.model = LastUpstream.model
              /\ FellBack => tkResponse.model = fallbackModel
        /\ (/\ Len(upstreamLog) > 0
            /\ LastUpstream.outcome.kind = "resp"
            /\ LastUpstream.outcome.status \in 200..299
            /\ ~LastUpstream.outcome.secret) =>
              /\ tkResponse.status \notin 200..299
              /\ ~tkResponse.token

\* a success after the fallback: the first request, for the cheap model, was
\* refused, the second, for the fallback model, returned a client secret
C30_Witness ==
    /\ tkResponse # NoRes /\ tkResponse.status = 200 /\ tkResponse.token
    /\ Len(upstreamLog) = 2 /\ FellBack
    /\ upstreamLog[1].model = cheapDefaultModel
    /\ tkResponse.model = fallbackModel


\* the step leaves the attempt counter, the peer connection, the data channel
\* and the transport microphone of every attempt as they were and issues no
\* credential request
TransportUntouched ==
    /\ realtimeAttemptRef' = realtimeAttemptRef
    /\ rtcRef' = rtcRef /\ rtcDataRef' = rtcDataRef /\ audioStreamRef' = audioStreamRef
    /\ conn' = conn

\* C33 (as stated): a wake phrase the recognizer hears while the status is
\* connecting or connected leaves the transport untouched.
C33_Original ==
    [][\/ TransportUntouched
       \/ realtimeStatus \notin {"connecting", "connected"}
       \/ ~\E t \in Instants :
             /\ heardWakeAt' = t
             /\ \E u \in Utterances : SaysWake(u) /\ RecOnResult(u, t)]_vars

\* C33 (amended): a wake phrase the recognizer hears while the status of the
\* last render is connecting or connected, and which is not taken as an exit
\* phrase (it has no exit word, or openRef is unset), leaves the transport
\* untouched: in every state with that status the handler changes none of it
\* for any such transcript at any instant, and no step of the recognizer does.
C33_WakeWhileBusy ==
    /\ [](rendered.realtimeStatus \in {"connecting", "connected"} =>
            \A u \in Utterances, t \in Instants :
                (SaysWake(u) /\ ~(SaysExit(u) /\ openRef)) =>
                    LET a == onresult(rendered, St, u, t)
                    IN  /\ a.realtimeAttemptRef = realtimeAttemptRef
                        /\ a.rtcRef = rtcRef /\ a.rtcDataRef = rtcDataRef
                        /\ a.audioStreamRef = audioStreamRef
                        /\ a.conn = conn)
    /\ [][\/ TransportUntouched
          \/ rendered.realtimeStatus \notin {"connecting", "connected"}
          \/ ~\E t \in Instants :
                /\ heardWakeAt' = t
                /\ \E u \in Utterances :
                      /\ SaysWake(u) /\ ~(SaysExit(u) /\ openRef)
                      /\ RecOnResult(u, t)]_vars

\* the only attempt was started from the button and is connecting or
\* connected, and a wake phrase was accepted meanwhile: it started nothing
C33_Witness ==
    /\ realtimeAttemptRef = 1 /\ conn[1].via = "button"
    /\ realtimeStatus \in {"connecting", "connected"}
    /\ rendered.realtimeStatus \in {"connecting", "connected"}
    /\ lastWakeTriggerAtRef > 0 /\ heardWakeAt = lastWakeTriggerAtRef


\* C32: the level monitor holds at most one live microphone stream at a
\* time, and once stopMicMonitor has cleared micMonitorStreamRef no stream the
\* monitor acquired is live any more.
C32_OneMonitorStream ==
    /\ ~(micMonitorStreamRef /\ monitorLeak)
    /\ ~micMonitorStreamRef => ~monitorLeak


\* C31: whenever the session status is connecting, the connect attempt whose
\* id is the current attempt id is in progress: it was started and has not
\* ended.
C31_ConnectingHasAttempt ==
    realtimeStatus = "connecting" =>
        /\ realtimeAttemptRef \in AttemptIds
        /\ conn[realtimeAttemptRef].pos \notin {"none", "end"}


\* C34: closeAssistant dispatches a last, silent sample, and no sample of the
\* remote meter follows it until a new session receives a remote track: while
\* the assistant is closed and idle the last sample dispatched is not one of
\* the meter, and the meter is scheduled only by the track of the current
\* attempt.
C34_SilentAfterClose ==
    /\ [](~open /\ realtimeStatus = "idle" => lastAudioBy # "tick")
    /\ [][/\ (realtimeAttemptRef' # realtimeAttemptRef /\ realtimeStatus' = "idle") =>
                lastAudioBy' = "close" /\ ~remoteAudioRafRef'
          /\ (~remoteAudioRafRef /\ remoteAudioRafRef') =>
                /\ realtimeAttemptRef \in AttemptIds
                /\ ~conn[realtimeAttemptRef].track
                /\ conn'[realtimeAttemptRef].track]_vars
====
